---- MODULE Spec2Model ----
(***************************************************************************)
(* A model of the customer risk analyzer (src/risk_analyzer.py): the       *)
(* analysis of one transcript file (CustomerRiskAnalyzer.analyze_transcript *)
(* and the heuristics it calls), the batch loop analyze_all_transcripts,   *)
(* the report generate_report and the command line entry main.             *)
(*                                                                         *)
(* Text is modelled as TLA+ strings, character by character: `k in s' of   *)
(* Python is In(k, s), str.lower is Lower, ' '.join is Join and            *)
(* len(s.split()) is WordCount.  A Devanagari code point U+09xy, which a    *)
(* TLA+ string cannot hold, is written as the three characters _xy (lower  *)
(* case hexadecimal); the encoding is injective, keeps the substring       *)
(* relation, and no other text of the model contains an underscore.        *)
(*                                                                         *)
(* Python floats are modelled as exact rationals (a numerator n over a     *)
(* positive denominator d, in lowest terms); a transcript_confidence is an *)
(* integer number of hundredths.                                           *)
(***************************************************************************)
EXTENDS Integers, Sequences, FiniteSets, TLC

VARIABLES
    fs,          \* the file system: path -> what open() and json.load() give
    dir_exists,  \* os.path.exists(transcript_dir)
    listing,     \* os.listdir(transcript_dir), in the order the system gives
    now,         \* datetime.now(), a counter of seconds
    call,        \* the call being made, or made last: its name and arguments
    pc,          \* where the running call stands
    frame,       \* the local variables of the last analyze_transcript that returned
    todo,        \* analyze_all_transcripts: transcript_files not yet visited
    analyses,    \* the list of analyses the caller holds
    stdout,      \* what print() has written, oldest first
    raised,      \* the exception that left the last call, or NoException
    result,      \* the value the last call returned, or None
    sink         \* the output files generate_report has written: path -> report

vars == <<fs, dir_exists, listing, now, call, pc, frame, todo, analyses, stdout,
          raised, result, sink>>

-----------------------------------------------------------------------------
(* Strings *)

\* Python: k in s (k occurs in s as a contiguous substring).
In(k, s) ==
    \E i \in 1..(Len(s) - Len(k) + 1) : SubSeq(s, i, i + Len(k) - 1) = k

\* The lower case of each upper case letter.
LowerOf ==
    [A |-> "a", B |-> "b", C |-> "c", D |-> "d", E |-> "e", F |-> "f", G |-> "g",
     H |-> "h", I |-> "i", J |-> "j", K |-> "k", L |-> "l", M |-> "m", N |-> "n",
     O |-> "o", P |-> "p", Q |-> "q", R |-> "r", S |-> "s", T |-> "t", U |-> "u",
     V |-> "v", W |-> "w", X |-> "x", Y |-> "y", Z |-> "z"]

UpperLetters == DOMAIN LowerOf

\* str.lower of one character.
LowerChar(c) == IF c \in UpperLetters THEN LowerOf[c] ELSE c

\* str.lower: character by character (halving keeps the recursion shallow).
RECURSIVE Lower(_)
Lower(s) ==
    IF Len(s) = 0 THEN ""
    ELSE IF Len(s) = 1 THEN LowerChar(s)
    ELSE LET h == Len(s) \div 2
         IN  Lower(SubSeq(s, 1, h)) \o Lower(SubSeq(s, h + 1, Len(s)))

\* ' '.join(parts).
RECURSIVE Join(_)
Join(parts) ==
    IF Len(parts) = 0 THEN ""
    ELSE IF Len(parts) = 1 THEN parts[1]
    ELSE parts[1] \o " " \o Join(Tail(parts))

\* len(s.split()): the number of maximal runs of characters other than spaces.
WordCount(s) ==
    Cardinality({i \in 1..Len(s) :
        /\ SubSeq(s, i, i) # " "
        /\ (i = 1 \/ SubSeq(s, i - 1, i - 1) = " ")})

\* sum(1 for word in words if word in content)
CountIn(words, content) ==
    Cardinality({i \in 1..Len(words) : In(words[i], content)})

\* [word for word in words if word in content], in the order of words.
Matched(words, content) == SelectSeq(words, LAMBDA word : In(word, content))

-----------------------------------------------------------------------------
(* Rationals, for Python's floats *)

RECURSIVE Gcd(_, _)
Gcd(a, b) == IF b = 0 THEN a ELSE Gcd(b, a % b)

Abs(x) == IF x < 0 THEN -x ELSE x

\* n/d in lowest terms, d > 0.
Rat(n, d) ==
    LET g == Gcd(Abs(n), Abs(d))
        s == IF d < 0 THEN -1 ELSE 1
    IN  [n |-> s * (n \div g), d |-> s * (d \div g)]

RInt(i) == [n |-> i, d |-> 1]
RAdd(x, y) == Rat(x.n * y.d + y.n * x.d, x.d * y.d)
RSub(x, y) == Rat(x.n * y.d - y.n * x.d, x.d * y.d)
RMul(x, y) == Rat(x.n * y.n, x.d * y.d)
RDivInt(x, k) == Rat(x.n, x.d * k)
RLe(x, y) == x.n * y.d <= y.n * x.d
RLt(x, y) == x.n * y.d < y.n * x.d
RMax(x, y) == IF RLt(x, y) THEN y ELSE x
RMin(x, y) == IF RLt(y, x) THEN y ELSE x

RECURSIVE RSum(_)
RSum(xs) == IF Len(xs) = 0 THEN RInt(0) ELSE RAdd(Head(xs), RSum(Tail(xs)))

-----------------------------------------------------------------------------
(* The lexicon: CustomerRiskAnalyzer.__init__ and the lists the heuristics *)
(* hold, verbatim and in the source's order (duplicates included).         *)

high_risk_keywords ==
  <<
    "can't pay", "no money", "broke", "unemployed", "lost job", "bankruptcy", "lawyer",
    "dispute", "wrong", "not mine", "never received", "scam", "harassment", "sue",
    "court", "refuse", "won't pay", "can't afford", "financial hardship",
    "_2a_48_38_47 _28_39_40_02", "_2a_48_38_3e _28_39_40_02",
    "_2c_47_30_4b_1c_17_3e_30", "_28_4c_15_30_40 _28_39_40_02", "_17_32_24",
    "_2e_47_30_3e _28_39_40_02", "_28_39_40_02 _2e_3f_32_3e", "_27_4b_16_3e",
    "_17_32_24 _28_02_2c_30", "_35_15_40_32", "_05_26_3e_32_24", "_15_47_38",
    "_2e_28_3e _15_30_24_3e", "paisa nahi", "paise nahi", "berozgar", "naukri nahi",
    "galat hai", "mera nahi", "nahi mila", "dhoka", "galat number", "vakeel", "adalat",
    "case karunga", "mana karta", "afford nahi kar sakta", "bankruptcy",
    "paisa khatam", "financial problem", "court jaaunga", "lawyer se baat"
  >>

medium_risk_keywords ==
  <<
    "difficult", "tight", "struggling", "need time", "extension", "payment plan",
    "partial", "later", "next month", "busy", "forgot", "remind me", "will try",
    "maybe", "not sure", "_2e_41_36_4d_15_3f_32", "_2a_30_47_36_3e_28_40",
    "_38_2e_2f _1a_3e_39_3f_0f", "_2d_42_32 _17_2f_3e", "_2c_3e_26 _2e_47_02",
    "_05_17_32_47 _2e_39_40_28_47", "_35_4d_2f_38_4d_24",
    "_15_4b_36_3f_36 _15_30_42_02_17_3e", "_36_3e_2f_26", "_2a_24_3e _28_39_40_02",
    "_25_4b_21_3c_3e _38_2e_2f", "mushkil", "pareshani", "samay chahiye", "bhul gaya",
    "baad mein", "agle mahine", "vyast", "busy hun", "koshish karunga", "shayad",
    "pata nahi", "thoda samay", "time chahiye", "extension chahiye", "payment plan",
    "partial payment", "installment mein", "emi mein"
  >>

low_risk_keywords ==
  <<
    "yes", "okay", "sure", "will pay", "today", "tomorrow", "understand", "sorry",
    "apologize", "thank you", "appreciate", "payment", "pay now", "confirm", "agreed",
    "right away", "_39_3e_01", "_20_40_15", "_38_2e_1d _17_2f_3e",
    "_2e_3e_2b_3c _15_30_4b", "_27_28_4d_2f_35_3e_26", "_36_41_15_4d_30_3f_2f_3e",
    "_38_39_40", "_06_1c", "_15_32", "_05_2d_40", "_24_41_30_02_24",
    "_2a_47_2e_47_02_1f", "_2d_41_17_24_3e_28", "_26_47_24_3e _39_42_01", "haan",
    "theek", "theek hai", "samjh gaya", "maaf karo", "dhanyawad", "shukriya",
    "thank you", "sahi", "aaj", "kal", "abhi", "turant", "payment kar dunga",
    "paisa de dunga", "bhugtan", "pay kar dunga", "samay pe dunga", "confirm",
    "agreed", "bilkul", "zaroor"
  >>

cooperation_indicators ==
  <<
    "thank you", "sorry", "understand", "appreciate", "yes", "okay", "sure", "will do",
    "agreed", "right", "haan", "theek", "theek hai", "samjh gaya", "maaf karo",
    "shukriya", "dhanyawad", "bilkul", "zaroor", "kar dunga", "de dunga", "samjha",
    "acha", "sahi", "_20_40_15", "_39_3e_01", "_38_2e_1d _17_2f_3e",
    "_2e_3e_2b_3c _15_30_4b", "_27_28_4d_2f_35_3e_26", "_36_41_15_4d_30_3f_2f_3e",
    "_2c_3f_32_4d_15_41_32", "_1c_30_42_30", "_05_1a_4d_1b_3e", "_38_39_40"
  >>

non_cooperation_indicators ==
  <<
    "no", "can't", "won't", "refuse", "busy", "later", "maybe", "not now", "call back",
    "don't have time", "not interested", "nahi", "nahin", "mana", "vyast", "busy",
    "baad mein", "phone rakh", "time nahi", "interested nahi", "pareshaan mat karo",
    "tang mat karo", "_28_39_40_02", "_2e_28_3e", "_35_4d_2f_38_4d_24",
    "_2c_3e_26 _2e_47_02", "_2b_4b_28 _30_16", "_38_2e_2f _28_39_40_02",
    "_2a_30_47_36_3e_28 _2e_24 _15_30_4b", "_24_02_17 _2e_24 _15_30_4b", "call back",
    "later call karo", "abhi nahi"
  >>

positive_words ==
  <<
    "thank", "sorry", "appreciate", "understand", "yes", "okay", "good", "fine",
    "great", "excellent", "wonderful", "happy", "pleased", "satisfied", "dhanyawad",
    "shukriya", "maaf karo", "samjh gaya", "theek", "acha", "badhiya", "khushi",
    "santushti", "prasanna", "haan", "bilkul", "zaroor", "accha", "sahi", "badiya",
    "mast", "sundar", "samjha", "theek hai", "_27_28_4d_2f_35_3e_26",
    "_36_41_15_4d_30_3f_2f_3e", "_2e_3e_2b_3c _15_30_4b", "_38_2e_1d _17_2f_3e",
    "_20_40_15", "_05_1a_4d_1b_3e", "_2c_22_3c_3f_2f_3e", "_16_41_36_40",
    "_38_02_24_41_37_4d_1f_3f", "_2a_4d_30_38_28_4d_28", "_39_3e_01",
    "_2c_3f_32_4d_15_41_32", "_1c_30_42_30", "_38_39_40"
  >>

negative_words ==
  <<
    "no", "can't", "won't", "angry", "upset", "wrong", "bad", "hate", "refuse",
    "terrible", "awful", "horrible", "disgusted", "furious", "annoyed", "nahi",
    "nahin", "gussa", "pareshaan", "galat", "bura", "nafrat", "mana", "tang",
    "irritate", "problem", "mushkil", "takleef", "dukh", "ghussa", "pareshan", "khafa",
    "chid", "badtameez", "bakwas", "_28_39_40_02", "_17_41_38_4d_38_3e",
    "_2a_30_47_36_3e_28", "_17_32_24", "_2c_41_30_3e", "_28_2b_30_24", "_2e_28_3e",
    "_24_02_17", "_38_2e_38_4d_2f_3e", "_2e_41_36_4d_15_3f_32", "_24_15_32_40_2b",
    "_26_41_03_16", "_16_2b_3e", "_1a_3f_22_3c", "_2c_26_24_2e_40_1c", "_2c_15_35_3e_38"
  >>

evasive_phrases ==
  <<
    "abhi busy hun", "time nahi hai", "baad mein call karo", "pareshaan mat karo",
    "tang mat karo", "galat number hai", "mujhe pata nahi", "kuch nahi pata",
    "samjh nahi aaya"
  >>

hostile_phrases ==
  <<
    "phone rakh", "bakwas mat karo", "jhooth bol rahe ho", "scam hai ye",
    "fraud company", "police complaint karunga"
  >>

distress_phrases ==
  <<
    "paisa nahi hai", "afford nahi kar sakta", "salary nahi aayi", "job chali gayi",
    "business band ho gaya", "EMI bhi nahi de pa raha"
  >>

hindi_indicators ==
  <<
    "nahi", "hai", "kar", "se", "mein", "ko", "ka", "ki", "ke"
  >>

english_indicators ==
  <<
    "the", "and", "is", "are", "can", "will", "have", "not"
  >>

translations ==
  <<
    <<"_2a_48_38_47 _28_39_40_02", "no money">>,
    <<"_2a_48_38_3e _28_39_40_02", "no money">>,
    <<"_2c_47_30_4b_1c_17_3e_30", "unemployed">>,
    <<"_28_4c_15_30_40 _28_39_40_02", "no job">>, <<"_17_32_24", "wrong">>,
    <<"_2e_47_30_3e _28_39_40_02", "not mine">>,
    <<"_28_39_40_02 _2e_3f_32_3e", "never received">>,
    <<"_27_4b_16_3e", "fraud/scam">>, <<"_35_15_40_32", "lawyer">>,
    <<"_05_26_3e_32_24", "court">>, <<"_15_47_38", "case">>,
    <<"_2e_41_36_4d_15_3f_32", "difficult">>,
    <<"_2a_30_47_36_3e_28_40", "problem/trouble">>,
    <<"_38_2e_2f _1a_3e_39_3f_0f", "need time">>, <<"_2d_42_32 _17_2f_3e", "forgot">>,
    <<"_2c_3e_26 _2e_47_02", "later">>, <<"_35_4d_2f_38_4d_24", "busy">>,
    <<"_39_3e_01", "yes">>, <<"_20_40_15", "okay">>,
    <<"_38_2e_1d _17_2f_3e", "understood">>, <<"_2e_3e_2b_3c _15_30_4b", "sorry">>,
    <<"_27_28_4d_2f_35_3e_26", "thank you">>,
    <<"_36_41_15_4d_30_3f_2f_3e", "thank you">>, <<"_28_39_40_02", "no">>,
    <<"_17_41_38_4d_38_3e", "angry">>, <<"_2a_30_47_36_3e_28", "upset/troubled">>
  >>

-----------------------------------------------------------------------------
(* Program constants *)

HighRiskWeight == 30
MediumRiskWeight == 15
LowRiskWeight == 10
InterruptionRisk == 20
ShortResponseRisk == 15
LowConfidenceRisk == 10
SentimentWeight == 25       \* hundredths: weights['sentiment'] = 0.25
CooperationWeight == 35     \* hundredths: weights['cooperation'] = 0.35
KeywordsWeight == 30        \* hundredths: weights['keywords'] = 0.30
FlowWeight == 10            \* hundredths: weights['flow'] = 0.10
CriticalThreshold == 75
HighThreshold == 50
MediumThreshold == 25
MaxIndicators == 7
DefaultConfidence == 100    \* hundredths: item.get('transcript_confidence', 1.0)
LowConfidence == 70         \* hundredths: msg.get('confidence', 1.0) < 0.7

\* class RiskLevel(Enum): the values, in the order of the definition.
RiskLevel == <<"Low", "Medium", "High", "Critical">>

\* Python's None where a string may stand; no exception; no value yet.
None == "<None>"
NoException == [type |-> "None"]
NoResult == [none |-> TRUE]
NoFrame == [none |-> TRUE]

\* dict.get(key, default)
Get(d, key, default) == IF key \in DOMAIN d THEN d[key] ELSE default

-----------------------------------------------------------------------------
(* The heuristics of one analysis *)

\* One entry of user_messages or assistant_messages, from a message item.
Message(item, role) ==
    LET content == Lower(Join(Get(item, "content", <<>>)))
    IN  IF role = "user"
        THEN [content |-> content,
              interrupted |-> Get(item, "interrupted", FALSE),
              confidence |-> Get(item, "transcript_confidence", DefaultConfidence)]
        ELSE [content |-> content,
              interrupted |-> Get(item, "interrupted", FALSE)]

\* The loop with a message that has no role taken as a user message.
MessagesRoleDefaultUser(items, role) ==
    LET kept == SelectSeq(items, LAMBDA item :
                    Get(item, "type", None) = "message" /\ Get(item, "role", "user") = role)
    IN  [i \in 1..Len(kept) |-> Message(kept[i], role)]

\* The loop of analyze_transcript that separates user and assistant messages:
\* the messages of `items' whose role is `role', in the order of the items.
Messages(items, role) ==
    LET kept == SelectSeq(items, LAMBDA item :
                    Get(item, "type", None) = "message" /\ Get(item, "role", None) = role)
    IN  [i \in 1..Len(kept) |-> Message(kept[i], role)]

\* ' '.join(msg['content'] for msg in user_messages)
AllContent(user_messages) ==
    Join([i \in 1..Len(user_messages) |-> user_messages[i].content])

\* The sentiment of one message, and whether the message counts.
MsgSentiment(content) ==
    LET positive_count == CountIn(positive_words, content)
        negative_count == CountIn(negative_words, content)
        total == positive_count + negative_count
    IN  [counted |-> positive_count > 0 \/ negative_count > 0,
         value |-> Rat(positive_count - negative_count, IF total > 1 THEN total ELSE 1)]

\* total_sentiment and message_count of _analyze_sentiment after its loop.
RECURSIVE SentimentCounters(_)
SentimentCounters(user_messages) ==
    IF Len(user_messages) = 0 THEN [total_sentiment |-> RInt(0), message_count |-> 0]
    ELSE LET s == MsgSentiment(Head(user_messages).content)
             rest == SentimentCounters(Tail(user_messages))
         IN  IF s.counted
             THEN [total_sentiment |-> RAdd(s.value, rest.total_sentiment),
                   message_count |-> rest.message_count + 1]
             ELSE rest

\* _analyze_sentiment returning total_sentiment, not its mean over the
\* messages counted.
SentimentTotal(user_messages) ==
    IF Len(user_messages) = 0 THEN RInt(0)
    ELSE SentimentCounters(user_messages).total_sentiment

_analyze_sentiment(user_messages) ==
    IF Len(user_messages) = 0 THEN RInt(0)
    ELSE LET c == SentimentCounters(user_messages)
         IN  RDivInt(c.total_sentiment, IF c.message_count > 1 THEN c.message_count ELSE 1)

\* The two counters of _analyze_cooperation after its loop.
RECURSIVE CooperationCounters(_)
CooperationCounters(user_messages) ==
    IF Len(user_messages) = 0 THEN [points |-> 0, total |-> 0]
    ELSE LET content == Head(user_messages).content
             plus == CountIn(cooperation_indicators, content)
             minus == CountIn(non_cooperation_indicators, content)
             rest == CooperationCounters(Tail(user_messages))
         IN  [points |-> plus - minus + rest.points, total |-> plus + minus + rest.total]

\* _analyze_cooperation starting from 0 where no indicator decides, not from
\* the neutral 50.
CooperationFromZero(user_messages) ==
    IF Len(user_messages) = 0 THEN RInt(0)
    ELSE LET c == CooperationCounters(user_messages)
         IN  IF c.total = 0 THEN RInt(0)
             ELSE RMax(RInt(0), RMin(RInt(100),
                      RAdd(RInt(50), RMul(Rat(c.points, c.total), RInt(50)))))

_analyze_cooperation(user_messages) ==
    IF Len(user_messages) = 0 THEN RInt(50)
    ELSE LET c == CooperationCounters(user_messages)
         IN  IF c.total = 0 THEN RInt(50)
             ELSE LET cooperation_ratio == Rat(c.points, c.total)
                  IN  RMax(RInt(0), RMin(RInt(100),
                           RAdd(RInt(50), RMul(cooperation_ratio, RInt(50)))))

\* _analyze_keywords with the weights of the high and the medium risk
\* keywords exchanged.
KeywordsWeightsExchanged(user_messages) ==
    IF Len(user_messages) = 0 THEN RInt(0)
    ELSE LET all_content == AllContent(user_messages)
             risk_score ==
                 CountIn(high_risk_keywords, all_content) * MediumRiskWeight
                 + CountIn(medium_risk_keywords, all_content) * HighRiskWeight
                 - CountIn(low_risk_keywords, all_content) * LowRiskWeight
         IN  RMax(RInt(0), RMin(RInt(100), RInt(risk_score)))

_analyze_keywords(user_messages) ==
    IF Len(user_messages) = 0 THEN RInt(0)
    ELSE LET all_content == AllContent(user_messages)
             high_risk_count == CountIn(high_risk_keywords, all_content)
             medium_risk_count == CountIn(medium_risk_keywords, all_content)
             low_risk_count == CountIn(low_risk_keywords, all_content)
             risk_score == high_risk_count * HighRiskWeight
                           + medium_risk_count * MediumRiskWeight
                           - low_risk_count * LowRiskWeight
         IN  RMax(RInt(0), RMin(RInt(100), RInt(risk_score)))

_analyze_conversation_flow(user_messages, assistant_messages) ==
    LET n == Len(user_messages)
        user_interruptions ==
            Cardinality({i \in 1..n : Get(user_messages[i], "interrupted", FALSE)})
        short_responses ==
            Cardinality({i \in 1..n : WordCount(user_messages[i].content) <= 2})
        low_confidence_count ==
            Cardinality({i \in 1..n :
                Get(user_messages[i], "confidence", DefaultConfidence) < LowConfidence})
        risk_score ==
            (IF user_interruptions > 2 THEN InterruptionRisk ELSE 0)
            + (IF n > 0 /\ 10 * short_responses > 7 * n THEN ShortResponseRisk ELSE 0)
            + (IF n > 0 /\ 2 * low_confidence_count > n THEN LowConfidenceRisk ELSE 0)
    IN  RMin(RInt(100), RInt(risk_score))

\* _calculate_risk_score with a sentiment risk of (1 - sentiment) * 100,
\* twice that of the code, which has 100 for a sentiment of -1.
RiskScoreSentimentToHundred(sentiment, cooperation, keyword_risk, flow_risk) ==
    LET sentiment_risk == RMax(RInt(0), RMul(RSub(RInt(1), sentiment), RInt(100)))
        cooperation_risk == RSub(RInt(100), cooperation)
        risk_score ==
            RAdd(RAdd(RMul(sentiment_risk, Rat(SentimentWeight, 100)),
                      RMul(cooperation_risk, Rat(CooperationWeight, 100))),
                 RAdd(RMul(keyword_risk, Rat(KeywordsWeight, 100)),
                      RMul(flow_risk, Rat(FlowWeight, 100))))
    IN  RMin(RInt(100), RMax(RInt(0), risk_score))

\* _calculate_risk_score with the sentiment itself weighed, not turned into
\* a risk.
RiskScoreOfSentimentItself(sentiment, cooperation, keyword_risk, flow_risk) ==
    LET cooperation_risk == RSub(RInt(100), cooperation)
        risk_score ==
            RAdd(RAdd(RMul(sentiment, Rat(SentimentWeight, 100)),
                      RMul(cooperation_risk, Rat(CooperationWeight, 100))),
                 RAdd(RMul(keyword_risk, Rat(KeywordsWeight, 100)),
                      RMul(flow_risk, Rat(FlowWeight, 100))))
    IN  RMin(RInt(100), RMax(RInt(0), risk_score))

_calculate_risk_score(sentiment, cooperation, keyword_risk, flow_risk) ==
    LET sentiment_risk == RMax(RInt(0), RMul(RSub(RInt(1), sentiment), RInt(50)))
        cooperation_risk == RSub(RInt(100), cooperation)
        risk_score ==
            RAdd(RAdd(RMul(sentiment_risk, Rat(SentimentWeight, 100)),
                      RMul(cooperation_risk, Rat(CooperationWeight, 100))),
                 RAdd(RMul(keyword_risk, Rat(KeywordsWeight, 100)),
                      RMul(flow_risk, Rat(FlowWeight, 100))))
    IN  RMin(RInt(100), RMax(RInt(0), risk_score))

\* _determine_risk_level comparing with > where the code has >=.
LevelAboveThreshold(risk_score) ==
    IF RLt(RInt(CriticalThreshold), risk_score) THEN "Critical"
    ELSE IF RLt(RInt(HighThreshold), risk_score) THEN "High"
    ELSE IF RLt(RInt(MediumThreshold), risk_score) THEN "Medium"
    ELSE "Low"

_determine_risk_level(risk_score) ==
    IF RLe(RInt(CriticalThreshold), risk_score) THEN "Critical"
    ELSE IF RLe(RInt(HighThreshold), risk_score) THEN "High"
    ELSE IF RLe(RInt(MediumThreshold), risk_score) THEN "Medium"
    ELSE "Low"

\* translations.get(keyword, keyword)
_translate_keyword_for_report(keyword) ==
    IF \E i \in 1..Len(translations) : translations[i][1] = keyword
    THEN translations[CHOOSE i \in 1..Len(translations) : translations[i][1] = keyword][2]
    ELSE keyword

\* [prefix + x + "'" for x in xs]
Quoted(prefix, xs) == [i \in 1..Len(xs) |-> prefix \o xs[i] \o "'"]

_detect_hinglish_patterns(content) ==
    Quoted("Evasive Hinglish phrase: '", Matched(evasive_phrases, content))
    \o Quoted("Hostile Hinglish phrase: '", Matched(hostile_phrases, content))
    \o Quoted("Financial distress indicator: '", Matched(distress_phrases, content))

\* 'H', 'E' or 'M' for one message.
LanguageOf(content) ==
    LET hindi_count == CountIn(hindi_indicators, content)
        english_count == CountIn(english_indicators, content)
    IN  IF hindi_count > english_count THEN "H"
        ELSE IF english_count > hindi_count THEN "E"
        ELSE "M"

\* _detect_language_switching as its comment has it: more than 50% of the
\* transitions are switches.
SwitchesOverHalfOfTransitions(user_messages) ==
    IF Len(user_messages) < 3 THEN FALSE
    ELSE LET language_pattern ==
                 [i \in 1..Len(user_messages) |-> LanguageOf(user_messages[i].content)]
             switches ==
                 Cardinality({i \in 1..(Len(language_pattern) - 1) :
                     /\ language_pattern[i] # language_pattern[i + 1]
                     /\ language_pattern[i] # "M"
                     /\ language_pattern[i + 1] # "M"})
         IN  2 * switches > Len(language_pattern) - 1

_detect_language_switching(user_messages) ==
    IF Len(user_messages) < 3 THEN FALSE
    ELSE LET language_pattern ==
                 [i \in 1..Len(user_messages) |-> LanguageOf(user_messages[i].content)]
             switches ==
                 Cardinality({i \in 1..(Len(language_pattern) - 1) :
                     /\ language_pattern[i] # language_pattern[i + 1]
                     /\ language_pattern[i] # "M"
                     /\ language_pattern[i + 1] # "M"})
         IN  10 * switches > 3 * Len(language_pattern)

\* The list _identify_key_indicators builds, before it is cut.
AllIndicators(user_messages) ==
    LET all_content == AllContent(user_messages)
        high == Matched(high_risk_keywords, all_content)
        medium == Matched(medium_risk_keywords, all_content)
    IN  Quoted("High risk keyword: '",
               [i \in 1..Len(high) |-> _translate_keyword_for_report(high[i])])
        \o Quoted("Medium risk keyword: '",
               [i \in 1..Len(medium) |-> _translate_keyword_for_report(medium[i])])
        \o _detect_hinglish_patterns(all_content)
        \o (IF Len(user_messages) = 0
            THEN <<"No user responses - possible call avoidance">>
            ELSE IF Len(user_messages) = 1 /\ WordCount(user_messages[1].content) <= 2
            THEN <<"Very brief response - possible disengagement">>
            ELSE <<>>)
        \o (IF _detect_language_switching(user_messages)
            THEN <<"Frequent language switching - possible avoidance tactic">>
            ELSE <<>>)

\* indicators[-7:], the last entries where the code keeps the first.
LastIndicators(indicators) ==
    SubSeq(indicators,
           IF Len(indicators) < MaxIndicators THEN 1
           ELSE Len(indicators) - MaxIndicators + 1,
           Len(indicators))

\* indicators[:7]
FirstIndicators(indicators) ==
    SubSeq(indicators, 1, IF Len(indicators) < MaxIndicators
                          THEN Len(indicators) ELSE MaxIndicators)

\* Returns the list it built (indicators) and the list it returns.
_identify_key_indicators(user_messages) ==
    LET indicators == AllIndicators(user_messages)
    IN  [indicators |-> indicators, returned |-> FirstIndicators(indicators)]

\* any(a in ind or b in ind or c in ind for ind in indicators)
AnyIndicatorHas(indicators, words) ==
    \E i \in 1..Len(indicators) : \E w \in words : In(w, indicators[i])

\* _get_hinglish_recommendations looking for "Language switching" in the
\* lowercased text, which has no capital: the rule never fires.
HinglishRecommendationsCapital(indicators) ==
    LET indicator_text == Lower(Join(indicators))
    IN  (IF In("evasive hinglish phrase", indicator_text)
         THEN <<"Customer using evasive Hinglish - try direct Hindi approach">>
         ELSE <<>>)
        \o (IF In("hostile hinglish phrase", indicator_text)
            THEN <<"Customer showing hostility in Hinglish - escalate to Hindi-speaking senior agent">>
            ELSE <<>>)
        \o (IF In("financial distress indicator", indicator_text)
            THEN <<"Financial distress detected - offer EMI/installment options in Hindi">>
            ELSE <<>>)
        \o (IF In("Language switching", indicator_text)
            THEN <<"Customer switching languages - may indicate discomfort, use consistent Hindi">>
            ELSE <<>>)
        \o (IF AnyIndicatorHas(indicators, {"no money", "unemployed", "no job"})
            THEN <<"Financial hardship indicated - consider compassionate collection approach">>
            ELSE <<>>)
        \o (IF AnyIndicatorHas(indicators, {"lawyer", "court", "case"})
            THEN <<"Legal threats detected - document thoroughly and involve legal team">>
            ELSE <<>>)

_get_hinglish_recommendations(indicators) ==
    LET indicator_text == Lower(Join(indicators))
    IN  (IF In("evasive hinglish phrase", indicator_text)
         THEN <<"Customer using evasive Hinglish - try direct Hindi approach">>
         ELSE <<>>)
        \o (IF In("hostile hinglish phrase", indicator_text)
            THEN <<"Customer showing hostility in Hinglish - escalate to Hindi-speaking senior agent">>
            ELSE <<>>)
        \o (IF In("financial distress indicator", indicator_text)
            THEN <<"Financial distress detected - offer EMI/installment options in Hindi">>
            ELSE <<>>)
        \o (IF In("language switching", indicator_text)
            THEN <<"Customer switching languages - may indicate discomfort, use consistent Hindi">>
            ELSE <<>>)
        \o (IF AnyIndicatorHas(indicators, {"no money", "unemployed", "no job"})
            THEN <<"Financial hardship indicated - consider compassionate collection approach">>
            ELSE <<>>)
        \o (IF AnyIndicatorHas(indicators, {"lawyer", "court", "case"})
            THEN <<"Legal threats detected - document thoroughly and involve legal team">>
            ELSE <<>>)

\* The four lines _generate_recommendations starts from.
BaseRecommendations(risk_level) ==
    IF risk_level = "Critical"
    THEN <<"Escalate to senior collection specialist immediately",
           "Consider legal action or external collection agency",
           "Document all interactions thoroughly",
           "Review account for potential disputes or fraud">>
    ELSE IF risk_level = "High"
    THEN <<"Schedule follow-up call within 24-48 hours",
           "Offer payment plan options",
           "Consider supervisor review of account",
           "Document customer concerns and objections">>
    ELSE IF risk_level = "Medium"
    THEN <<"Follow up within 1 week",
           "Send payment reminder via email/SMS",
           "Monitor account closely for changes",
           "Be prepared to offer flexible payment options">>
    ELSE <<"Standard follow-up schedule",
           "Customer appears cooperative",
           "Continue with normal collection process",
           "Consider this a positive interaction">>

\* _generate_recommendations with the bounds of the cooperation lines
\* included (<= 30, >= 70).
RecommendationsBoundsIncluded(risk_level, indicators, cooperation_score) ==
    BaseRecommendations(risk_level)
    \o (IF RLe(cooperation_score, RInt(30))
        THEN <<"Customer showed low cooperation - consider different approach">>
        ELSE IF RLe(RInt(70), cooperation_score)
        THEN <<"Customer was cooperative - maintain positive relationship">>
        ELSE <<>>)
    \o _get_hinglish_recommendations(indicators)

_generate_recommendations(risk_level, indicators, cooperation_score) ==
    BaseRecommendations(risk_level)
    \o (IF RLt(cooperation_score, RInt(30))
        THEN <<"Customer showed low cooperation - consider different approach">>
        ELSE IF RLt(RInt(70), cooperation_score)
        THEN <<"Customer was cooperative - maintain positive relationship">>
        ELSE <<>>)
    \o _get_hinglish_recommendations(indicators)

-----------------------------------------------------------------------------
(* analyze_transcript *)

Raise(type, where) == [raised |-> [type |-> type, where |-> where]]
Raised(r) == "raised" \in DOMAIN r

\* What open() and json.load() give for a path.  A file that is absent or
\* holds no JSON makes analyze_transcript raise ValueError (lines 119-123); a
\* JSON document is [dict |-> its members] or [list |-> its elements], and
\* only a dict has the get of line 126.
Readable(path) == path \in DOMAIN fs /\ fs[path].kind = "json"

\* Lines 119-126: the items of the transcript file, or the exception.
LoadItems(transcript_file) ==
    IF ~Readable(transcript_file) THEN Raise("ValueError", "analyze_transcript")
    ELSE LET transcript_data == fs[transcript_file].data
         IN  IF "dict" \notin DOMAIN transcript_data
             THEN Raise("AttributeError", "analyze_transcript")
             ELSE [items |-> Get(transcript_data.dict, "items", <<>>)]

\* Lines 128-176: the RiskAnalysis of the items, and the local variables (with
\* the list _identify_key_indicators built before it cut it).
AnalysisOf(transcript_file, items) ==
    LET user_messages == Messages(items, "user")
        assistant_messages == Messages(items, "assistant")
        sentiment_score == _analyze_sentiment(user_messages)
        cooperation_score == _analyze_cooperation(user_messages)
        keyword_risk_score == _analyze_keywords(user_messages)
        conversation_flow_score ==
            _analyze_conversation_flow(user_messages, assistant_messages)
        risk_score == _calculate_risk_score(sentiment_score, cooperation_score,
                          keyword_risk_score, conversation_flow_score)
        risk_level == _determine_risk_level(risk_score)
        identified == _identify_key_indicators(user_messages)
        key_indicators == identified.returned
        recommendations ==
            _generate_recommendations(risk_level, key_indicators, cooperation_score)
    IN  [returned |->
            [risk_level |-> risk_level,
             risk_score |-> risk_score,
             sentiment_score |-> sentiment_score,
             cooperation_score |-> cooperation_score,
             key_indicators |-> key_indicators,
             recommendations |-> recommendations,
             transcript_file |-> transcript_file,
             analysis_timestamp |-> now],
         locals |->
            [items |-> items,
             user_messages |-> user_messages,
             assistant_messages |-> assistant_messages,
             keyword_risk_score |-> keyword_risk_score,
             conversation_flow_score |-> conversation_flow_score,
             indicators |-> identified.indicators]]

\* analyze_transcript with the items kept on the analyzer from one call to the
\* next, where the code starts every call from the items of its file.
AnalyzeWithItemsKept(transcript_file) ==
    LET loaded == LoadItems(transcript_file)
        kept == IF "items" \in DOMAIN frame THEN frame.items ELSE <<>>
    IN  IF Raised(loaded) THEN loaded
        ELSE AnalysisOf(transcript_file, kept \o loaded.items)

\* Returns [returned |-> the RiskAnalysis, locals |-> the local variables], or
\* [raised |-> the exception].
analyze_transcript(transcript_file) ==
    LET loaded == LoadItems(transcript_file)
    IN  IF Raised(loaded) THEN loaded ELSE AnalysisOf(transcript_file, loaded.items)

-----------------------------------------------------------------------------
(* Inputs: transcript items, transcripts and files *)

MaxItems == 3    \* the items of a transcript

\* The items transcripts are made of: customer turns with high-risk, agreeing,
\* Hinglish, one-word and Devanagari text (with and without the optional
\* fields), an agent turn, an item that is no message and a message of
\* neither role.
ItemPool ==
    { [type |-> "message", role |-> "user",
       content |-> <<"Can't pay, no money,", "_35_15_40_32">>,
       interrupted |-> TRUE, transcript_confidence |-> 50],
      [type |-> "message", role |-> "user", content |-> <<"Yes okay,", "will pay">>],
      [type |-> "message", role |-> "user",
       content |-> <<"abhi busy hun", "paisa nahi hai, phone rakh">>,
       interrupted |-> TRUE, transcript_confidence |-> 60],
      [type |-> "message", role |-> "user", content |-> <<"No">>,
       interrupted |-> TRUE, transcript_confidence |-> 40],
      [type |-> "message", role |-> "assistant", content |-> <<"Hello">>,
       interrupted |-> TRUE],
      [type |-> "function_call", role |-> "user", content |-> <<"sue">>],
      [type |-> "message", content |-> <<"court">>] }

RECURSIVE SeqsUpTo(_, _)
SeqsUpTo(S, n) ==
    IF n = 0 THEN {<<>>}
    ELSE LET shorter == SeqsUpTo(S, n - 1)
         IN  shorter \cup {Append(t, x) : t \in shorter, x \in S}

Transcripts == SeqsUpTo(ItemPool, MaxItems)

\* What a path of the file system can hold: a transcript record, a JSON
\* object without items, a JSON array, or text that is no JSON.
FileContents ==
    {[kind |-> "json", data |-> [dict |-> [items |-> t]]] : t \in Transcripts}
    \cup {[kind |-> "json", data |-> [dict |-> [room |-> "call"]]],
          [kind |-> "json", data |-> [list |-> <<>>]],
          [kind |-> "text"]}

-----------------------------------------------------------------------------
(* One call of analyze_transcript on one file *)

TranscriptPath == "transcripts/call.json"

InitAnalyze ==
    /\ fs \in [{TranscriptPath} -> FileContents] \cup {<<>>}
    /\ dir_exists = TRUE
    /\ listing = <<>>
    /\ now = 0
    /\ call = [op |-> "analyze_transcript", transcript_file |-> TranscriptPath]
    /\ pc = "ready"
    /\ frame = NoFrame
    /\ todo = <<>>
    /\ analyses = <<>>
    /\ stdout = <<>>
    /\ raised = NoException
    /\ result = NoResult
    /\ sink = <<>>

CallAnalyzeTranscript ==
    /\ pc = "ready"
    /\ call.op = "analyze_transcript"
    /\ \E r \in {analyze_transcript(call.transcript_file)} :
           IF Raised(r)
           THEN /\ raised' = r.raised
                /\ pc' = "raised"
                /\ UNCHANGED <<result, frame>>
           ELSE /\ result' = r.returned
                /\ frame' = r.locals
                /\ pc' = "returned"
                /\ UNCHANGED raised
    /\ UNCHANGED <<fs, dir_exists, listing, now, call, todo, analyses, stdout, sink>>

NextAnalyze == CallAnalyzeTranscript

SpecAnalyze == InitAnalyze /\ [][NextAnalyze]_vars

-----------------------------------------------------------------------------
(* One call of _determine_risk_level on one score *)

ScoreWindow == 2    \* thousandths sampled on each side of every threshold

\* Every whole score from 0 to 100, and the scores within ScoreWindow
\* thousandths of a threshold (24.999, 25, 25.001, ...).
ScoreSamples ==
    {RInt(i) : i \in 0..100}
    \cup {Rat(1000 * t + k, 1000) :
            t \in {MediumThreshold, HighThreshold, CriticalThreshold},
            k \in (0 - ScoreWindow)..ScoreWindow}

InitLevel ==
    /\ fs = <<>>
    /\ dir_exists = TRUE
    /\ listing = <<>>
    /\ now = 0
    /\ call \in {[op |-> "_determine_risk_level", risk_score |-> s] : s \in ScoreSamples}
    /\ pc = "ready"
    /\ frame = NoFrame
    /\ todo = <<>>
    /\ analyses = <<>>
    /\ stdout = <<>>
    /\ raised = NoException
    /\ result = NoResult
    /\ sink = <<>>

CallDetermineRiskLevel ==
    /\ pc = "ready"
    /\ call.op = "_determine_risk_level"
    /\ result' = _determine_risk_level(call.risk_score)
    /\ pc' = "returned"
    /\ UNCHANGED <<fs, dir_exists, listing, now, call, frame, todo, analyses, stdout,
                   raised, sink>>

NextLevel == CallDetermineRiskLevel

SpecLevel == InitLevel /\ [][NextLevel]_vars

-----------------------------------------------------------------------------
(* generate_report *)

\* sorted(analyses, key=lambda x: x.risk_score, reverse=True): a stable sort,
\* so analyses of equal risk_score keep the order they have in `analyses'.
\* InsertByScore puts x behind every entry whose score is not smaller.
\* The insertion of a sort that is not stable: x goes before the entries of
\* its own score.
RECURSIVE InsertBeforeEqual(_, _)
InsertBeforeEqual(x, xs) ==
    IF Len(xs) = 0 THEN <<x>>
    ELSE IF RLe(Head(xs).risk_score, x.risk_score) THEN <<x>> \o xs
    ELSE <<Head(xs)>> \o InsertBeforeEqual(x, Tail(xs))

RECURSIVE InsertByScore(_, _)
InsertByScore(x, xs) ==
    IF Len(xs) = 0 THEN <<x>>
    ELSE IF RLt(Head(xs).risk_score, x.risk_score) THEN <<x>> \o xs
    ELSE <<Head(xs)>> \o InsertByScore(x, Tail(xs))

\* The analyses as they were given, where the code sorts them.
GivenOrder(xs) == xs

RECURSIVE SortedByScore(_)
SortedByScore(xs) ==
    IF Len(xs) = 0 THEN <<>>
    ELSE InsertByScore(xs[Len(xs)], SortedByScore(SubSeq(xs, 1, Len(xs) - 1)))

\* os.path.basename(path): what follows the last "/".
Basename(path) ==
    LET slashes == {i \in 1..Len(path) : SubSeq(path, i, i) = "/"}
        last == IF slashes = {} THEN 0
                ELSE CHOOSE i \in slashes : \A j \in slashes : j <= i
    IN  SubSeq(path, last + 1, Len(path))

\* The block of the report for one analysis.
ReportEntry(analysis) ==
    [file |-> Basename(analysis.transcript_file),
     risk_level |-> analysis.risk_level,
     risk_score |-> analysis.risk_score,
     sentiment |-> analysis.sentiment_score,
     cooperation |-> analysis.cooperation_score,
     key_indicators |-> analysis.key_indicators,
     recommendations |-> analysis.recommendations]

\* The summary with a line only for the levels some analysis has, where the
\* code starts every level of RiskLevel at zero.
SummaryOfLevelsPresent(given) ==
    LET n == Len(given)
        count(level) == Cardinality({i \in 1..n : given[i].risk_level = level})
        present == SelectSeq(RiskLevel, LAMBDA level : count(level) > 0)
        total_risk_score == RSum([i \in 1..n |-> given[i].risk_score])
    IN  [levels |-> [k \in 1..Len(present) |->
                        [level |-> present[k],
                         count |-> count(present[k]),
                         percentage |-> RMul(Rat(count(present[k]), n), RInt(100))]],
         avg_risk_score |-> RDivInt(total_risk_score, n)]

\* The summary statistics: for each level of RiskLevel, in its order, the
\* count and the percentage; and the average risk score.
ReportSummary(given) ==
    LET n == Len(given)
        risk_counts == [level \in {RiskLevel[k] : k \in 1..Len(RiskLevel)} |->
                           Cardinality({i \in 1..n : given[i].risk_level = level})]
        total_risk_score == RSum([i \in 1..n |-> given[i].risk_score])
    IN  [levels |-> [k \in 1..Len(RiskLevel) |->
                        [level |-> RiskLevel[k],
                         count |-> risk_counts[RiskLevel[k]],
                         percentage |-> RMul(Rat(risk_counts[RiskLevel[k]], n), RInt(100))]],
         avg_risk_score |-> RDivInt(total_risk_score, n)]

NothingToReport == [text |-> "No analyses to report"]

\* generate_report writing the file before it looks whether there is an
\* analysis to report.
ReportWrittenFirst(given, output_file) ==
    IF output_file # None /\ output_file # ""
    THEN [returned |-> NothingToReport,
          sink |-> (output_file :> NothingToReport) @@ sink,
          printed |-> <<[text |-> "Report saved to", file |-> output_file]>>]
    ELSE [returned |-> NothingToReport, sink |-> sink, printed |-> <<>>]

\* The report text is kept as its parts (the numbers unformatted), in the
\* order of the lines.  Returns the report, the sink after the call and what
\* the call printed.
generate_report(given, output_file) ==
    IF Len(given) = 0
    THEN [returned |-> NothingToReport, sink |-> sink, printed |-> <<>>]
    ELSE LET ordered == SortedByScore(given)
             report_text ==
                 [title |-> "CUSTOMER RISK ANALYSIS REPORT",
                  generated |-> now,
                  total |-> Len(given),
                  summary |-> ReportSummary(given),
                  entries |-> [i \in 1..Len(ordered) |-> ReportEntry(ordered[i])]]
         IN  IF output_file # None /\ output_file # ""
             THEN [returned |-> report_text,
                   sink |-> (output_file :> report_text) @@ sink,
                   printed |-> <<[text |-> "Report saved to", file |-> output_file]>>]
             ELSE [returned |-> report_text, sink |-> sink, printed |-> <<>>]

-----------------------------------------------------------------------------
(* analyze_all_transcripts and main: one run of the command line program *)

MaxFiles == 3    \* the entries of the transcript directory

TranscriptDir == "transcripts"

\* The names the directory may hold: three transcripts and a file that is none.
FileNames == {"a.json", "b.json", "c.json", "notes.txt"}

\* s.endswith(suffix)
EndsWith(s, suffix) ==
    Len(s) >= Len(suffix) /\ SubSeq(s, Len(s) - Len(suffix) + 1, Len(s)) = suffix

\* os.path.join(transcript_dir, filename)
PathJoin(dir, filename) == dir \o "/" \o filename

\* What a transcript file of the directory may hold: text that is no JSON, a
\* JSON array, a transcript without items, and transcripts of one customer
\* turn, one refusing and one agreeing.
BatchContents ==
    {[kind |-> "text"],
     [kind |-> "json", data |-> [list |-> <<>>]],
     [kind |-> "json", data |-> [dict |-> [items |-> <<>>]]],
     [kind |-> "json", data |-> [dict |-> [items |->
        <<[type |-> "message", role |-> "user", content |-> <<"No money">>]>>]]],
     [kind |-> "json", data |-> [dict |-> [items |->
        <<[type |-> "message", role |-> "user", content |-> <<"Yes okay">>]>>]]]}

\* The orders in which os.listdir may give at most n of the names.
RECURSIVE Listings(_)
Listings(n) ==
    IF n = 0 THEN {<<>>}
    ELSE LET shorter == Listings(n - 1)
             longer == UNION {{Append(l, f) :
                                 f \in FileNames \ {l[i] : i \in 1..Len(l)}} :
                              l \in shorter}
         IN  shorter \cup longer

\* [f for f in os.listdir(transcript_dir) if f.endswith('.json')]
JsonFiles(names) == SelectSeq(names, LAMBDA f : EndsWith(f, ".json"))

\* The file systems that hold the names of a listing.
FileSystems(names) ==
    LET paths == {PathJoin(TranscriptDir, names[i]) : i \in 1..Len(names)}
    IN  {f \in [paths -> BatchContents] :
            \A p \in paths : ~EndsWith(p, ".json") => f[p] = [kind |-> "text"]}

Init ==
    /\ dir_exists \in BOOLEAN
    /\ listing \in (IF dir_exists THEN Listings(MaxFiles) ELSE {<<>>})
    /\ fs \in FileSystems(listing)
    /\ now = 0
    /\ call = [op |-> "main"]
    /\ pc = "main"
    /\ frame = NoFrame
    /\ todo = <<>>
    /\ analyses = <<>>
    /\ stdout = <<>>
    /\ raised = NoException
    /\ result = NoResult
    /\ sink = <<>>

\* main, lines 622-627: the analyzer is built and analyze_all_transcripts called.
MainStart ==
    /\ pc = "main"
    /\ stdout' = Append(stdout, [text |-> "Analyzing transcripts..."])
    /\ call' = [op |-> "analyze_all_transcripts", transcript_dir |-> TranscriptDir]
    /\ pc' = "check_dir"
    /\ UNCHANGED <<fs, dir_exists, listing, now, frame, todo, analyses, raised, result, sink>>

\* analyze_all_transcripts listing the directory without the test of line 540.
ListWithoutCheck ==
    /\ pc = "check_dir"
    /\ analyses' = <<>>
    /\ todo' = JsonFiles(listing)
    /\ pc' = "loop"
    /\ UNCHANGED <<fs, dir_exists, listing, now, call, frame, stdout, result, sink, raised>>

\* analyze_all_transcripts, lines 540-544: the directory is checked, then listed.
CheckDirectory ==
    /\ pc = "check_dir"
    /\ IF ~dir_exists
       THEN /\ raised' = Raise("ValueError", "analyze_all_transcripts").raised
            /\ pc' = "except"
            /\ UNCHANGED <<todo, analyses>>
       ELSE /\ analyses' = <<>>
            /\ todo' = JsonFiles(listing)
            /\ pc' = "loop"
            /\ UNCHANGED raised
    /\ UNCHANGED <<fs, dir_exists, listing, now, call, frame, stdout, result, sink>>

\* The loop without the try of lines 548-552: the exception of one file leaves
\* analyze_all_transcripts.
AnalyzeWithoutTry ==
    /\ pc = "loop"
    /\ todo # <<>>
    /\ \E r \in {analyze_transcript(PathJoin(call.transcript_dir, Head(todo)))} :
          IF Raised(r)
          THEN /\ raised' = r.raised
               /\ pc' = "except"
               /\ UNCHANGED <<analyses, frame>>
          ELSE /\ analyses' = Append(analyses, r.returned)
               /\ frame' = r.locals
               /\ UNCHANGED <<raised, pc>>
    /\ todo' = Tail(todo)
    /\ UNCHANGED <<fs, dir_exists, listing, now, call, stdout, result, sink>>

\* analyze_all_transcripts, lines 546-552: one file of the loop.
AnalyzeNextFile ==
    /\ pc = "loop"
    /\ todo # <<>>
    /\ LET filename == Head(todo)
           filepath == PathJoin(call.transcript_dir, filename)
       IN  \E r \in {analyze_transcript(filepath)} :
              IF Raised(r)
              THEN /\ stdout' = Append(stdout, [text |-> "Error analyzing",
                                                file |-> filename, error |-> r.raised.type])
                   /\ UNCHANGED <<analyses, frame>>
              ELSE /\ analyses' = Append(analyses, r.returned)
                   /\ frame' = r.locals
                   /\ UNCHANGED stdout
    /\ todo' = Tail(todo)
    /\ UNCHANGED <<fs, dir_exists, listing, now, call, pc, raised, result, sink>>

\* analyze_all_transcripts, line 554: the list is returned to main.
ReturnAnalyses ==
    /\ pc = "loop"
    /\ todo = <<>>
    /\ result' = analyses
    /\ pc' = "analyzed"
    /\ UNCHANGED <<fs, dir_exists, listing, now, call, frame, todo, analyses, stdout,
                   raised, sink>>

\* main, lines 629-631: nothing was analyzed.
MainNothingAnalyzed ==
    /\ pc = "analyzed"
    /\ Len(analyses) = 0
    /\ stdout' = Append(stdout, [text |-> "No transcript files found in 'transcripts' directory"])
    /\ pc' = "done"
    /\ UNCHANGED <<fs, dir_exists, listing, now, call, frame, todo, analyses, raised,
                   result, sink>>

\* The lines main prints for the analyses of High or Critical risk.
HighPriority(given) ==
    LET high_risk == SelectSeq(given, LAMBDA a : a.risk_level \in {"High", "Critical"})
    IN  IF Len(high_risk) = 0 THEN <<>>
        ELSE <<[text |-> "HIGH PRIORITY", count |-> Len(high_risk),
                files |-> [i \in 1..Len(high_risk) |->
                              Basename(high_risk[i].transcript_file)]]>>

\* main, lines 633-661: the report is generated and saved, the summary printed.
MainReport ==
    /\ pc = "analyzed"
    /\ Len(analyses) > 0
    /\ LET report_filename == "risk_analysis_report_" \o ToString(now) \o ".txt"
       IN  \E r \in {generate_report(analyses, report_filename)} :
              /\ call' = [op |-> "generate_report", analyses |-> analyses,
                          output_file |-> report_filename]
              /\ result' = r.returned
              /\ sink' = r.sink
              /\ stdout' = Append(stdout, [text |-> "Analyzed", count |-> Len(analyses)])
                           \o r.printed
                           \o <<[text |-> "RISK ANALYSIS SUMMARY",
                                 summary |-> ReportSummary(analyses).levels],
                                [text |-> "Full report saved to", file |-> report_filename]>>
                           \o HighPriority(analyses)
    /\ pc' = "done"
    /\ UNCHANGED <<fs, dir_exists, listing, now, frame, todo, analyses, raised>>

\* main, lines 663-664: an exception of the run is printed, and main returns.
MainExcept ==
    /\ pc = "except"
    /\ stdout' = Append(stdout, [text |-> "Error", error |-> raised.type])
    /\ pc' = "done"
    /\ UNCHANGED <<fs, dir_exists, listing, now, call, frame, todo, analyses, raised,
                   result, sink>>

Next ==
    \/ MainStart
    \/ CheckDirectory
    \/ AnalyzeNextFile
    \/ ReturnAnalyses
    \/ MainNothingAnalyzed
    \/ MainReport
    \/ MainExcept

Spec == Init /\ [][Next]_vars

-----------------------------------------------------------------------------
(* A caller of the analyzer: it analyzes files one call at a time, in any    *)
(* order and any number of times, while the clock runs, and then asks for    *)
(* one report of the analyses it holds.                                      *)

MaxCalls == 3    \* the analyses the caller collects
MaxClock == 2    \* the seconds the clock runs

\* The files of the caller: two transcripts and a file that is no JSON.
ClientFiles ==
    (PathJoin(TranscriptDir, "a.json") :>
        [kind |-> "json", data |-> [dict |-> [items |->
            <<[type |-> "message", role |-> "user", content |-> <<"No money">>],
              [type |-> "message", role |-> "assistant", content |-> <<"Hello">>]>>]]])
    @@ (PathJoin(TranscriptDir, "b.json") :>
        [kind |-> "json", data |-> [dict |-> [items |->
            <<[type |-> "message", role |-> "user", content |-> <<"Yes okay">>,
               interrupted |-> TRUE]>>]]])
    @@ (PathJoin(TranscriptDir, "c.json") :> [kind |-> "text"])

InitClient ==
    /\ fs = ClientFiles
    /\ dir_exists = TRUE
    /\ listing = <<>>
    /\ now = 0
    /\ call = [op |-> "none"]
    /\ pc = "idle"
    /\ frame = NoFrame
    /\ todo = <<>>
    /\ analyses = <<>>
    /\ stdout = <<>>
    /\ raised = NoException
    /\ result = NoResult
    /\ sink = <<>>

\* A second passes.
Tick ==
    /\ pc = "idle"
    /\ now < MaxClock
    /\ now' = now + 1
    /\ UNCHANGED <<fs, dir_exists, listing, call, pc, frame, todo, analyses, stdout,
                   raised, result, sink>>

\* analyzer.analyze_transcript(path); the caller keeps what is returned.
ClientAnalyze ==
    /\ pc = "idle"
    /\ Len(analyses) < MaxCalls
    /\ \E path \in DOMAIN fs :
          /\ call' = [op |-> "analyze_transcript", transcript_file |-> path]
          /\ \E r \in {analyze_transcript(path)} :
                IF Raised(r)
                THEN /\ raised' = r.raised
                     /\ result' = NoResult
                     /\ UNCHANGED <<analyses, frame>>
                ELSE /\ raised' = NoException
                     /\ result' = r.returned
                     /\ frame' = r.locals
                     /\ analyses' = Append(analyses, r.returned)
    /\ UNCHANGED <<fs, dir_exists, listing, now, pc, todo, stdout, sink>>

\* analyzer.generate_report(analyses, output_file), with and without a file.
ClientReport ==
    /\ pc = "idle"
    /\ \E output_file \in {None, "report.txt"} :
          /\ call' = [op |-> "generate_report", analyses |-> analyses,
                      output_file |-> output_file]
          /\ \E r \in {generate_report(analyses, output_file)} :
                /\ result' = r.returned
                /\ sink' = r.sink
                /\ stdout' = stdout \o r.printed
    /\ raised' = NoException
    /\ pc' = "reported"
    /\ UNCHANGED <<fs, dir_exists, listing, now, frame, todo, analyses>>

NextClient ==
    \/ Tick
    \/ ClientAnalyze
    \/ ClientReport

SpecClient == InitClient /\ [][NextClient]_vars

-----------------------------------------------------------------------------
(* Properties of one analysis (SpecAnalyze)                                  *)

\* C1: every analysis analyze_transcript returns, whatever the customer turns,
\* lexicon hits, interruptions and confidences of the transcript, has
\* risk_score in [0, 100], sentiment_score in [-1, 1] and cooperation_score
\* in [0, 100].
ScoresInRange ==
    pc = "returned" =>
        /\ RLe(RInt(0), result.risk_score) /\ RLe(result.risk_score, RInt(100))
        /\ RLe(RInt(-1), result.sentiment_score) /\ RLe(result.sentiment_score, RInt(1))
        /\ RLe(RInt(0), result.cooperation_score)
        /\ RLe(result.cooperation_score, RInt(100))

\* An analysis of several customer turns, interrupted and of low confidence,
\* whose sentiment and cooperation are both at the lower end of their ranges.
ScoresAtLowerEnd ==
    /\ pc = "returned"
    /\ Len(frame.user_messages) >= 2
    /\ \E i \in 1..Len(frame.user_messages) :
          /\ frame.user_messages[i].interrupted
          /\ frame.user_messages[i].confidence < LowConfidence
    /\ result.sentiment_score = RInt(-1)
    /\ result.cooperation_score = RInt(0)
    /\ RLt(RInt(90), result.risk_score)

\* The customer turns among the items of a transcript file.
CustomerTurns(items) ==
    {i \in 1..Len(items) :
        Get(items[i], "type", None) = "message" /\ Get(items[i], "role", None) = "user"}

\* The path holds a JSON object.
HoldsTranscript(path) ==
    path \in DOMAIN fs /\ fs[path].kind = "json" /\ "dict" \in DOMAIN fs[path].data

\* The items of the JSON object the path holds.
ItemsOf(path) == Get(fs[path].data.dict, "items", <<>>)

AvoidanceFlag == "No user responses - possible call avoidance"

\* C3: a transcript without a customer turn (no items, no message among the
\* items, or agent messages only) is analyzed without an error, and the
\* analysis has cooperation_score 50, keyword risk 0, flow risk 0, sentiment
\* 0 and the call avoidance flag among its indicators.
ZeroCustomerTurns ==
    (/\ pc # "ready"
     /\ HoldsTranscript(call.transcript_file)
     /\ CustomerTurns(ItemsOf(call.transcript_file)) = {}) =>
            /\ pc = "returned"
            /\ raised = NoException
            /\ result.cooperation_score = RInt(50)
            /\ frame.keyword_risk_score = RInt(0)
            /\ frame.conversation_flow_score = RInt(0)
            /\ result.sentiment_score = RInt(0)
            /\ \E i \in 1..Len(result.key_indicators) :
                  result.key_indicators[i] = AvoidanceFlag

\* An analysis of a transcript whose items are an agent message and items
\* that are no customer message.
AgentOnlyAnalyzed ==
    /\ pc = "returned"
    /\ HoldsTranscript(call.transcript_file)
    /\ frame.items = ItemsOf(call.transcript_file)
    /\ Len(frame.items) >= 2
    /\ CustomerTurns(frame.items) = {}
    /\ \E i \in 1..Len(frame.items) : Get(frame.items[i], "role", None) = "assistant"
    /\ result.key_indicators = <<AvoidanceFlag>>

\* s.startswith(prefix)
StartsWith(s, prefix) == Len(s) >= Len(prefix) /\ SubSeq(s, 1, Len(prefix)) = prefix

\* The group of an indicator, in the order the groups are generated: 1 high
\* risk keyword, 2 medium risk keyword, 3 evasive, 4 hostile, 5 distress,
\* 6 structural flag, 7 language switching.
IndicatorGroup(indicator) ==
    IF StartsWith(indicator, "High risk keyword: '") THEN 1
    ELSE IF StartsWith(indicator, "Medium risk keyword: '") THEN 2
    ELSE IF StartsWith(indicator, "Evasive Hinglish phrase: '") THEN 3
    ELSE IF StartsWith(indicator, "Hostile Hinglish phrase: '") THEN 4
    ELSE IF StartsWith(indicator, "Financial distress indicator: '") THEN 5
    ELSE IF indicator \in {AvoidanceFlag, "Very brief response - possible disengagement"}
    THEN 6
    ELSE IF indicator = "Frequent language switching - possible avoidance tactic" THEN 7
    ELSE 0

\* C10: the indicators of an analysis are at most 7, they are the first 7 (or
\* all, if fewer) of the sequence generated, and in that sequence the groups
\* come in the order high risk keywords, medium risk keywords, evasive,
\* hostile and distress phrases, structural flag, language switching flag: no
\* entry of a later group stands before an entry of an earlier one.
IndicatorsFirstSeven ==
    pc = "returned" =>
        LET generated == frame.indicators
            kept == result.key_indicators
        IN  /\ Len(kept) <= 7
            /\ Len(kept) = (IF Len(generated) < 7 THEN Len(generated) ELSE 7)
            /\ \A i \in 1..Len(kept) : kept[i] = generated[i]
            /\ \A i \in 1..Len(generated) : IndicatorGroup(generated[i]) \in 1..7
            /\ \A i, j \in 1..Len(generated) :
                  i < j => IndicatorGroup(generated[i]) <= IndicatorGroup(generated[j])

\* An analysis that generated more than 7 indicators, of at least five of the
\* groups, the language switching flag last, and kept 7.
IndicatorsCut ==
    /\ pc = "returned"
    /\ Len(frame.indicators) > 7
    /\ Len(result.key_indicators) = 7
    /\ Cardinality({IndicatorGroup(frame.indicators[i]) :
                        i \in 1..Len(frame.indicators)}) >= 5
    /\ IndicatorGroup(frame.indicators[Len(frame.indicators)]) = 7
    /\ IndicatorGroup(result.key_indicators[7]) < 7

-----------------------------------------------------------------------------
(* Properties of _determine_risk_level (SpecLevel)                           *)

\* The place of a level in RiskLevel.
LevelRank(level) == CHOOSE k \in 1..Len(RiskLevel) : RiskLevel[k] = level

\* C2: the level is a step function of the score alone with inclusive lower
\* boundaries: Critical from 75, High from 50 to below 75, Medium from 25 to
\* below 50, Low below 25; and a higher score never has a lower level.
LevelIsStepFunction ==
    (pc = "returned" /\ call.op = "_determine_risk_level") =>
        LET s == call.risk_score
        IN  /\ (result = "Critical") <=> RLe(RInt(75), s)
            /\ (result = "High") <=> (RLe(RInt(50), s) /\ RLt(s, RInt(75)))
            /\ (result = "Medium") <=> (RLe(RInt(25), s) /\ RLt(s, RInt(50)))
            /\ (result = "Low") <=> RLt(s, RInt(25))
            /\ \A t \in ScoreSamples :
                  /\ RLe(t, s) =>
                        LevelRank(_determine_risk_level(t)) <= LevelRank(result)
                  /\ t = s => _determine_risk_level(t) = result

\* The level of the score 25 is Medium.
LevelAtBoundary ==
    /\ pc = "returned"
    /\ call.op = "_determine_risk_level"
    /\ call.risk_score = RInt(25)
    /\ result = "Medium"

-----------------------------------------------------------------------------
(* Properties of a run of the program (Spec)                                 *)

\* The file of the directory cannot be analyzed: it is no JSON, or its JSON
\* is no object.
Corrupted(filename) == ~HoldsTranscript(PathJoin(TranscriptDir, filename))

\* The files the loop of analyze_all_transcripts has gone through.
FilesDone ==
    SubSeq(JsonFiles(listing), 1, Len(JsonFiles(listing)) - Len(todo))

\* C4: in analyze_all_transcripts a file whose analysis fails is recorded as
\* an error and skipped, without an exception leaving the batch; the files
\* after it are still analyzed, and the list returned has one analysis for
\* each file that could be analyzed, in their order, and none for a file that
\* failed.
BatchSkipsFailures ==
    (dir_exists /\ pc \in {"loop", "analyzed", "done"}) =>
        LET analyzed == SelectSeq(FilesDone, LAMBDA f : ~Corrupted(f))
            failed == SelectSeq(FilesDone, LAMBDA f : Corrupted(f))
            errors == SelectSeq(stdout, LAMBDA line : line.text = "Error analyzing")
        IN  /\ raised = NoException
            /\ Len(analyses) = Len(analyzed)
            /\ \A i \in 1..Len(analyses) :
                  analyses[i].transcript_file = PathJoin(TranscriptDir, analyzed[i])
            /\ Len(errors) = Len(failed)
            /\ \A i \in 1..Len(errors) : errors[i].file = failed[i]
            /\ pc \in {"analyzed", "done"} => FilesDone = JsonFiles(listing)
            /\ pc = "analyzed" => result = analyses

\* Three transcript files, the second of them corrupted: two analyses are
\* returned, of the first and of the third.
TwoOfThreeAnalyzed ==
    /\ pc = "analyzed"
    /\ Len(JsonFiles(listing)) = 3
    /\ ~Corrupted(JsonFiles(listing)[1])
    /\ Corrupted(JsonFiles(listing)[2])
    /\ ~Corrupted(JsonFiles(listing)[3])
    /\ Len(result) = 2
    /\ result[2].transcript_file = PathJoin(TranscriptDir, JsonFiles(listing)[3])

\* generate_report has returned its report to main.
Reported == pc = "done" /\ call.op = "generate_report"

\* The place in `given' of the analysis of the file an entry names (a
\* directory has one file of a name).
PlaceOf(entry, given) ==
    CHOOSE k \in 1..Len(given) : Basename(given[k].transcript_file) = entry.file

\* C5: the entries of the report are in non-increasing order of risk_score,
\* and two analyses of the same risk_score are in the order they have in the
\* list given to generate_report.
EntriesSortedStable ==
    Reported =>
        LET entries == result.entries
            given == call.analyses
        IN  /\ Len(entries) = Len(given)
            /\ \A k \in 1..Len(given) :
                  \E i \in 1..Len(entries) :
                     /\ entries[i].file = Basename(given[k].transcript_file)
                     /\ entries[i].risk_score = given[k].risk_score
            /\ \A i, j \in 1..Len(entries) :
                  i < j =>
                     /\ RLe(entries[j].risk_score, entries[i].risk_score)
                     /\ entries[i].risk_score = entries[j].risk_score =>
                           PlaceOf(entries[i], given) < PlaceOf(entries[j], given)

\* A report of three analyses, two of them of the same score, given with the
\* lowest score first: the two of the same score are moved up together.
TiedEntriesReported ==
    /\ Reported
    /\ Len(call.analyses) = 3
    /\ RLt(call.analyses[1].risk_score, call.analyses[2].risk_score)
    /\ call.analyses[2].risk_score = call.analyses[3].risk_score
    /\ result.entries[1].file = Basename(call.analyses[2].transcript_file)
    /\ result.entries[2].file = Basename(call.analyses[3].transcript_file)
    /\ result.entries[3].file = Basename(call.analyses[1].transcript_file)

\* The orders in which the analyses of `given' can be completed.
CompletionOrders(given) ==
    LET n == Len(given)
    IN  {[i \in 1..n |-> given[p[i]]] :
            p \in {q \in [1..n -> 1..n] : \A i, j \in 1..n : i # j => q[i] # q[j]}}

\* The entries of the report of the analyses in the order `given'.
EntriesOf(given) == generate_report(given, call.output_file).returned.entries

\* C6 as claimed: whatever the order in which the analyses of a batch were
\* completed, the report has the same sequence of entries.
SameEntriesInEveryOrder ==
    Reported =>
        \A given \in CompletionOrders(call.analyses) : EntriesOf(given) = result.entries

\* C6 as the code has it: whatever the order in which the analyses of a batch
\* were completed, the report has the same entries and the same sequence of
\* risk scores; two orders differ at most in the places of entries of equal
\* risk_score, which follow the order of completion.
SameEntriesUpToTies ==
    Reported =>
        \A given \in CompletionOrders(call.analyses) :
            LET entries == EntriesOf(given)
            IN  /\ Len(entries) = Len(result.entries)
                /\ {entries[i] : i \in 1..Len(entries)}
                      = {result.entries[i] : i \in 1..Len(entries)}
                /\ \A i \in 1..Len(entries) :
                      /\ entries[i].risk_score = result.entries[i].risk_score
                      /\ entries[i] # result.entries[i] =>
                            \E j \in 1..Len(entries) :
                               /\ j # i
                               /\ entries[j].risk_score = entries[i].risk_score
                /\ \A i, j \in 1..Len(entries) :
                      (i < j /\ entries[i].risk_score = entries[j].risk_score) =>
                         PlaceOf(entries[i], given) < PlaceOf(entries[j], given)

\* A report of three analyses of three different scores that were completed
\* in the order of rising score.
ReportOfRisingScores ==
    /\ Reported
    /\ Len(call.analyses) = 3
    /\ RLt(call.analyses[1].risk_score, call.analyses[2].risk_score)
    /\ RLt(call.analyses[2].risk_score, call.analyses[3].risk_score)
    /\ result.entries[1].file = Basename(call.analyses[3].transcript_file)

\* What a run prints when the transcript directory does not exist.
MissingDirectoryOutput(error) ==
    <<[text |-> "Analyzing transcripts..."], [text |-> "Error", error |-> error]>>

\* What C9 says of a run without the transcript directory, but for the type
\* of the exception: the directory is never listed and no file analyzed,
\* nothing is returned, no report is generated or written, and the directory
\* is looked for once.
MissingDirectoryIsFatal ==
    /\ pc \in {"main", "check_dir", "except", "done"}
    /\ call.op \in {"main", "analyze_all_transcripts"}
    /\ todo = <<>>
    /\ analyses = <<>>
    /\ frame = NoFrame
    /\ result = NoResult
    /\ sink = <<>>
    /\ pc \in {"except", "done"} <=> raised # NoException
    /\ raised # NoException => raised.where = "analyze_all_transcripts"
    /\ pc = "done" => stdout = MissingDirectoryOutput(raised.type)

\* C9 as claimed: without the transcript directory analyze_all_transcripts
\* fails with a ConfigurationError before a file is listed or analyzed, the
\* run ends without analyses and without a report, and nothing is retried.
MissingDirectoryConfigurationError ==
    ~dir_exists =>
        /\ MissingDirectoryIsFatal
        /\ pc \in {"except", "done"} => raised.type = "ConfigurationError"

\* C9 as the code has it: the exception is a ValueError.
MissingDirectoryValueError ==
    ~dir_exists =>
        /\ MissingDirectoryIsFatal
        /\ pc \in {"except", "done"} => raised.type = "ValueError"

\* A run without the transcript directory that has ended.
MissingDirectoryRunEnded ==
    /\ ~dir_exists
    /\ pc = "done"
    /\ raised.type = "ValueError"
    /\ stdout = MissingDirectoryOutput("ValueError")

-----------------------------------------------------------------------------
(* Properties of the analyzer under a caller (SpecClient)                    *)

\* Two analyses that differ at most in their timestamp.
SameButTimestamp(a, b) ==
    /\ a.risk_level = b.risk_level
    /\ a.risk_score = b.risk_score
    /\ a.sentiment_score = b.sentiment_score
    /\ a.cooperation_score = b.cooperation_score
    /\ a.key_indicators = b.key_indicators
    /\ a.recommendations = b.recommendations
    /\ a.transcript_file = b.transcript_file

EmptyReportIsNoOp ==
    (pc = "reported" /\ Len(call.analyses) = 0) =>
        /\ result = NothingToReport
        /\ raised = NoException
        /\ sink = <<>>
        /\ stdout = <<>>

\* generate_report called without analyses and with an output file, after an
\* analysis that failed.
EmptyReportWithOutputFile ==
    /\ pc = "reported"
    /\ Len(call.analyses) = 0
    /\ call.output_file = "report.txt"
    /\ result = NothingToReport
    /\ now > 0

-----------------------------------------------------------------------------
(* One call of analyze_transcript on transcripts of keyword scenarios        *)

\* Items of customer turns made of lexicon keywords: a high risk keyword the
\* lexicon lists twice, the two keywords "can't pay" and "lawyer", low risk
\* keywords (one of them listed twice), a medium risk keyword listed twice;
\* and an agent turn that repeats the customer's keywords.
KeywordItemPool ==
    { [type |-> "message", role |-> "user", content |-> <<"Bankruptcy">>],
      [type |-> "message", role |-> "user", content |-> <<"Can't pay,", "lawyer">>],
      [type |-> "message", role |-> "user", content |-> <<"Sorry, thank you, okay">>],
      [type |-> "message", role |-> "user", content |-> <<"payment plan">>],
      [type |-> "message", role |-> "assistant", content |-> <<"Can't pay,", "lawyer">>] }

KeywordTranscripts == SeqsUpTo(KeywordItemPool, MaxItems)

InitKeywords ==
    /\ fs \in [{TranscriptPath} ->
                 {[kind |-> "json", data |-> [dict |-> [items |-> t]]] :
                     t \in KeywordTranscripts}]
    /\ dir_exists = TRUE
    /\ listing = <<>>
    /\ now = 0
    /\ call = [op |-> "analyze_transcript", transcript_file |-> TranscriptPath]
    /\ pc = "ready"
    /\ frame = NoFrame
    /\ todo = <<>>
    /\ analyses = <<>>
    /\ stdout = <<>>
    /\ raised = NoException
    /\ result = NoResult
    /\ sink = <<>>

SpecKeywords == InitKeywords /\ [][NextAnalyze]_vars

\* The entries of the list that occur in the content, each counted once
\* however often the list has it.
DistinctPresent(keywords, content) ==
    Cardinality({keywords[i] : i \in {j \in 1..Len(keywords) : In(keywords[j], content)}})

\* The indicators of the group (see IndicatorGroup) among those generated.
EntriesOfGroup(indicators, group) ==
    Cardinality({i \in 1..Len(indicators) : IndicatorGroup(indicators[i]) = group})

\* C11: keyword risk is 30 H + 15 M - 10 L clipped to [0, 100], where H, M
\* and L count the distinct high, medium and low risk keywords that occur in
\* the customer text, each once however often the text or the lexicon has
\* it; and each distinct keyword present has one indicator entry.
KeywordRiskCountsDistinct ==
    (pc = "returned" /\ Len(frame.user_messages) > 0) =>
        LET all_content == AllContent(frame.user_messages)
            H == DistinctPresent(high_risk_keywords, all_content)
            M == DistinctPresent(medium_risk_keywords, all_content)
            L == DistinctPresent(low_risk_keywords, all_content)
            raw == 30 * H + 15 * M - 10 * L
        IN  /\ frame.keyword_risk_score =
                  RInt(IF raw < 0 THEN 0 ELSE IF raw > 100 THEN 100 ELSE raw)
            /\ EntriesOfGroup(frame.indicators, 1) = H
            /\ EntriesOfGroup(frame.indicators, 2) = M

\* The customer turns of the analysis contain "can't pay" and "lawyer".
SaysCantPayAndLawyer ==
    /\ pc = "returned"
    /\ Len(frame.user_messages) > 0
    /\ In("can't pay", AllContent(frame.user_messages))
    /\ In("lawyer", AllContent(frame.user_messages))

\* None of the words occurs in the content.
NoneIn(words, content) == \A i \in 1..Len(words) : ~In(words[i], content)

\* C13 as claimed: whenever the customer turns contain "can't pay" and
\* "lawyer", keyword risk is at least 60 and the level High or Critical.
CantPayLawyerAlwaysHigh ==
    SaysCantPayAndLawyer =>
        /\ RLe(RInt(60), frame.keyword_risk_score)
        /\ result.risk_level \in {"High", "Critical"}

\* C13 as the code has it: whenever the customer turns contain "can't pay"
\* and "lawyer" and the customer text has no low risk keyword, no positive
\* word and no cooperation indicator, keyword risk is at least 60 and the
\* level High or Critical.
CantPayLawyerUnopposedHigh ==
    (/\ SaysCantPayAndLawyer
     /\ NoneIn(low_risk_keywords, AllContent(frame.user_messages))
     /\ NoneIn(positive_words, AllContent(frame.user_messages))
     /\ NoneIn(cooperation_indicators, AllContent(frame.user_messages))) =>
        /\ RLe(RInt(60), frame.keyword_risk_score)
        /\ result.risk_level \in {"High", "Critical"}

\* An analysis of customer turns that say "can't pay" and "lawyer" and
\* nothing that lowers the risk, whatever the agent says: the keyword risk
\* is exactly 60.
CantPayLawyerOnly ==
    /\ SaysCantPayAndLawyer
    /\ NoneIn(low_risk_keywords, AllContent(frame.user_messages))
    /\ NoneIn(positive_words, AllContent(frame.user_messages))
    /\ NoneIn(cooperation_indicators, AllContent(frame.user_messages))
    /\ Len(frame.assistant_messages) > 0
    /\ frame.keyword_risk_score = RInt(60)
    /\ result.risk_level = "Critical"

-----------------------------------------------------------------------------
(* One call of analyze_transcript on transcripts of language scenarios       *)

\* Items of customer turns by language: an English turn, a Hindi turn, a
\* Hinglish turn that generates six indicators, an English turn that
\* generates two, and a turn of neither language.
LanguageItemPool ==
    { [type |-> "message", role |-> "user", content |-> <<"I will pay">>],
      [type |-> "message", role |-> "user", content |-> <<"nahi hai">>],
      [type |-> "message", role |-> "user",
       content |-> <<"abhi busy hun", "paisa nahi hai, phone rakh">>],
      [type |-> "message", role |-> "user", content |-> <<"Can't pay, no money">>],
      [type |-> "message", role |-> "user", content |-> <<"ok">>] }

LanguageTranscripts == SeqsUpTo(LanguageItemPool, MaxItems)

InitLanguage ==
    /\ fs \in [{TranscriptPath} ->
                 {[kind |-> "json", data |-> [dict |-> [items |-> t]]] :
                     t \in LanguageTranscripts}]
    /\ dir_exists = TRUE
    /\ listing = <<>>
    /\ now = 0
    /\ call = [op |-> "analyze_transcript", transcript_file |-> TranscriptPath]
    /\ pc = "ready"
    /\ frame = NoFrame
    /\ todo = <<>>
    /\ analyses = <<>>
    /\ stdout = <<>>
    /\ raised = NoException
    /\ result = NoResult
    /\ sink = <<>>

SpecLanguage == InitLanguage /\ [][NextAnalyze]_vars

SwitchingFlag == "Frequent language switching - possible avoidance tactic"

SwitchingLine ==
    "Customer switching languages - may indicate discomfort, use consistent Hindi"

\* x is an element of the sequence.
Among(x, xs) == \E i \in 1..Len(xs) : xs[i] = x

\* The detector returns true for the customer turns of the analysis.
SwitchingDetected ==
    pc = "returned" /\ _detect_language_switching(frame.user_messages)

\* C12 as claimed: whenever the language switch detector returns true for
\* the customer turns, the analysis has the language switching flag among
\* its indicators and the language switching line among its
\* recommendations.
SwitchingAlwaysReported ==
    SwitchingDetected =>
        /\ Among(SwitchingFlag, result.key_indicators)
        /\ Among(SwitchingLine, result.recommendations)

\* C12 as the code has it: whenever the detector returns true, the flag is
\* the last indicator generated; the analysis has the flag among its
\* indicators and the line among its recommendations if at most 6 indicators
\* are generated before the flag, and neither of them otherwise.
SwitchingReportedUnlessCut ==
    SwitchingDetected =>
        /\ frame.indicators[Len(frame.indicators)] = SwitchingFlag
        /\ Len(frame.indicators) <= 7 =>
              /\ Among(SwitchingFlag, result.key_indicators)
              /\ Among(SwitchingLine, result.recommendations)
        /\ Len(frame.indicators) > 7 =>
              /\ ~Among(SwitchingFlag, result.key_indicators)
              /\ ~Among(SwitchingLine, result.recommendations)

\* An analysis of an English, a Hinglish and an English turn with six
\* indicators before the flag: the flag is the seventh indicator, and the
\* line is among the recommendations.
SwitchingFlagSeventh ==
    /\ SwitchingDetected
    /\ Len(frame.indicators) = 7
    /\ result.key_indicators[7] = SwitchingFlag
    /\ Among(SwitchingLine, result.recommendations)

-----------------------------------------------------------------------------
(* One call of _generate_recommendations                                     *)

\* Indicators as _identify_key_indicators makes them, one or two of each
\* group, in the order it generates them.
IndicatorPool ==
    <<"High risk keyword: 'no money'",
      "High risk keyword: 'lawyer'",
      "Medium risk keyword: 'busy'",
      "Evasive Hinglish phrase: 'abhi busy hun'",
      "Hostile Hinglish phrase: 'phone rakh'",
      "Financial distress indicator: 'paisa nahi hai'",
      "Frequent language switching - possible avoidance tactic">>

\* The lists of indicators an analysis may keep: the indicators of the pool
\* at the places of `kept', in their order.
IndicatorLists ==
    {SelectSeq(IndicatorPool, LAMBDA x : \E i \in kept : IndicatorPool[i] = x) :
        kept \in SUBSET (1..Len(IndicatorPool))}

\* Cooperation scores at, next to and away from the bounds 30 and 70.
CooperationSamples ==
    {RInt(0), Rat(299, 10), RInt(30), RInt(50), RInt(70), Rat(701, 10), RInt(100)}

InitRecommend ==
    /\ fs = <<>>
    /\ dir_exists = TRUE
    /\ listing = <<>>
    /\ now = 0
    /\ call \in {[op |-> "_generate_recommendations", risk_level |-> RiskLevel[k],
                  indicators |-> l, cooperation_score |-> c] :
                    k \in 1..Len(RiskLevel), l \in IndicatorLists,
                    c \in CooperationSamples}
    /\ pc = "ready"
    /\ frame = NoFrame
    /\ todo = <<>>
    /\ analyses = <<>>
    /\ stdout = <<>>
    /\ raised = NoException
    /\ result = NoResult
    /\ sink = <<>>

CallGenerateRecommendations ==
    /\ pc = "ready"
    /\ call.op = "_generate_recommendations"
    /\ result' = _generate_recommendations(call.risk_level, call.indicators,
                                           call.cooperation_score)
    /\ pc' = "returned"
    /\ UNCHANGED <<fs, dir_exists, listing, now, call, frame, todo, analyses, stdout,
                   raised, sink>>

NextRecommend == CallGenerateRecommendations

SpecRecommend == InitRecommend /\ [][NextRecommend]_vars

\* Some indicator has one of the words in it.
SomeIndicatorSays(indicators, words) ==
    \E i \in 1..Len(indicators) : \E w \in words : In(w, indicators[i])

\* The six pattern rules in their order: whether the rule matches the
\* indicators, and its line.
PatternRules(indicators) ==
    <<[matches |-> SomeIndicatorSays(indicators, {"Evasive Hinglish phrase"}),
       line |-> "Customer using evasive Hinglish - try direct Hindi approach"],
      [matches |-> SomeIndicatorSays(indicators, {"Hostile Hinglish phrase"}),
       line |-> "Customer showing hostility in Hinglish - escalate to Hindi-speaking senior agent"],
      [matches |-> SomeIndicatorSays(indicators, {"Financial distress indicator"}),
       line |-> "Financial distress detected - offer EMI/installment options in Hindi"],
      [matches |-> SomeIndicatorSays(indicators, {"language switching"}),
       line |-> SwitchingLine],
      [matches |-> SomeIndicatorSays(indicators, {"no money", "unemployed", "no job"}),
       line |-> "Financial hardship indicated - consider compassionate collection approach"],
      [matches |-> SomeIndicatorSays(indicators, {"lawyer", "court", "case"}),
       line |-> "Legal threats detected - document thoroughly and involve legal team"]>>

LowCooperationLine == "Customer showed low cooperation - consider different approach"

CooperativeLine == "Customer was cooperative - maintain positive relationship"

\* C14: the recommendations are the four base lines of the risk level, then
\* at most one cooperation line (the low cooperation line iff the score is
\* below 30, the cooperative line iff it is above 70), then the line of each
\* pattern rule that matches the indicators, each independently of the
\* others, in the order evasive, hostile, financial distress, language
\* switching, financial hardship, legal threat.
RecommendationsInFixedOrder ==
    (pc = "returned" /\ call.op = "_generate_recommendations") =>
        LET low == RLt(call.cooperation_score, RInt(30))
            high == RLt(RInt(70), call.cooperation_score)
            rules == PatternRules(call.indicators)
            fired == SelectSeq(rules, LAMBDA r : r.matches)
            after == IF low \/ high THEN 5 ELSE 4
        IN  /\ ~(low /\ high)
            /\ Len(result) = after + Len(fired)
            /\ SubSeq(result, 1, 4) = BaseRecommendations(call.risk_level)
            /\ \A k \in 1..Len(RiskLevel) :
                  RiskLevel[k] # call.risk_level =>
                     SubSeq(result, 1, 4) # BaseRecommendations(RiskLevel[k])
            /\ low => result[5] = LowCooperationLine
            /\ high => result[5] = CooperativeLine
            /\ \A i \in 1..Len(fired) : result[after + i] = fired[i].line
            /\ \A i \in 1..Len(rules) : Among(rules[i].line, result) <=> rules[i].matches

\* Recommendations with a cooperation line and the lines of all six rules.
AllSixRulesFire ==
    /\ pc = "returned"
    /\ call.op = "_generate_recommendations"
    /\ Len(call.indicators) <= 7
    /\ Len(result) = 11
    /\ result[5] = CooperativeLine
    /\ \A i \in 1..6 : result[5 + i] = PatternRules(call.indicators)[i].line

-----------------------------------------------------------------------------
(* The summary of the report *)

\* The sum of the counts of the summary lines.
RECURSIVE CountsTotal(_)
CountsTotal(levels) ==
    IF Len(levels) = 0 THEN 0 ELSE Head(levels).count + CountsTotal(Tail(levels))

-----------------------------------------------------------------------------
(* One call of analyze_transcript on transcripts of every kind of item       *)

\* Customer and agent turns with and without the optional fields, an item
\* that is no message, an item without a type, a message of another role and
\* a message without a role.
TurnItemPool ==
    { [type |-> "message", role |-> "user", content |-> <<"Hello,", "Who is THIS">>,
       interrupted |-> TRUE, transcript_confidence |-> 50],
      [type |-> "message", role |-> "user", content |-> <<"One moment">>],
      [type |-> "message", role |-> "assistant", content |-> <<"Good", "Morning">>],
      [type |-> "message", role |-> "assistant", content |-> <<"I am calling">>,
       interrupted |-> TRUE],
      [type |-> "function_call", role |-> "user", content |-> <<"end">>],
      [role |-> "assistant", content |-> <<"note">>],
      [type |-> "message", role |-> "system", content |-> <<"prompt">>],
      [type |-> "message", content |-> <<"tone">>] }

TurnTranscripts == SeqsUpTo(TurnItemPool, MaxItems)

InitTurns ==
    /\ fs \in [{TranscriptPath} ->
                 {[kind |-> "json", data |-> [dict |-> [items |-> t]]] :
                     t \in TurnTranscripts}]
    /\ dir_exists = TRUE
    /\ listing = <<>>
    /\ now = 0
    /\ call = [op |-> "analyze_transcript", transcript_file |-> TranscriptPath]
    /\ pc = "ready"
    /\ frame = NoFrame
    /\ todo = <<>>
    /\ analyses = <<>>
    /\ stdout = <<>>
    /\ raised = NoException
    /\ result = NoResult
    /\ sink = <<>>

SpecTurns == InitTurns /\ [][NextAnalyze]_vars

\* Whether the item is a message of the role.
IsMessageOf(item, role) ==
    /\ "type" \in DOMAIN item /\ item.type = "message"
    /\ "role" \in DOMAIN item /\ item.role = role

\* The places of the messages of the role among the items, rising.
PlacesOf(items, role) ==
    SelectSeq([i \in 1..Len(items) |-> i], LAMBDA i : IsMessageOf(items[i], role))

\* The turn is made of the item: its fragments joined by one space and in
\* lower case, interrupted false unless the item says otherwise.
TurnOfItem(turn, item) ==
    /\ turn.content = Lower(Join(item.content))
    /\ turn.interrupted = IF "interrupted" \in DOMAIN item THEN item.interrupted ELSE FALSE

\* C16: the customer turns are the message items of role "user" and the
\* agent turns the message items of role "assistant", one turn for each item
\* and in the order of the items; an item that is no message, and a message
\* of another role or of none, is in neither sequence and raises no error; an
\* item without interrupted gives a turn that is not interrupted, and a
\* customer item without confidence a turn of confidence 1.0.
TurnsPartitionItems ==
    /\ pc # "raised"
    /\ pc = "returned" =>
          LET items == frame.items
              users == PlacesOf(items, "user")
              agents == PlacesOf(items, "assistant")
          IN  /\ Len(frame.user_messages) = Len(users)
              /\ Len(frame.assistant_messages) = Len(agents)
              /\ \A k \in 1..Len(users) :
                    /\ TurnOfItem(frame.user_messages[k], items[users[k]])
                    /\ frame.user_messages[k].confidence =
                          IF "transcript_confidence" \in DOMAIN items[users[k]]
                          THEN items[users[k]].transcript_confidence ELSE 100
              /\ \A k \in 1..Len(agents) :
                    TurnOfItem(frame.assistant_messages[k], items[agents[k]])

\* A transcript analyzed that has a message without a role between a
\* customer turn without the optional fields and an agent turn.
RolelessBetweenTurns ==
    /\ pc = "returned"
    /\ Len(frame.items) = 3
    /\ IsMessageOf(frame.items[1], "user")
    /\ "interrupted" \notin DOMAIN frame.items[1]
    /\ "role" \notin DOMAIN frame.items[2]
    /\ IsMessageOf(frame.items[3], "assistant")
    /\ frame.user_messages = <<[content |-> "one moment", interrupted |-> FALSE,
                                confidence |-> 100]>>
    /\ Len(frame.assistant_messages) = 1

-----------------------------------------------------------------------------
(* One call of _detect_language_switching                                    *)

MaxTurns == 5    \* the customer turns of a call

\* Contents of customer turns: Hindi dominant, English dominant, with no
\* indicator word, and with one of each language.
TurnContents == {"nahi hai", "i will pay", "ok", "hai the"}

TurnLists ==
    {[i \in 1..Len(t) |-> [content |-> t[i], interrupted |-> FALSE,
                           confidence |-> DefaultConfidence]] :
        t \in SeqsUpTo(TurnContents, MaxTurns)}

InitSwitching ==
    /\ fs = <<>>
    /\ dir_exists = TRUE
    /\ listing = <<>>
    /\ now = 0
    /\ call \in {[op |-> "_detect_language_switching", user_messages |-> t] :
                    t \in TurnLists}
    /\ pc = "ready"
    /\ frame = NoFrame
    /\ todo = <<>>
    /\ analyses = <<>>
    /\ stdout = <<>>
    /\ raised = NoException
    /\ result = NoResult
    /\ sink = <<>>

CallDetectLanguageSwitching ==
    /\ pc = "ready"
    /\ call.op = "_detect_language_switching"
    /\ result' = _detect_language_switching(call.user_messages)
    /\ pc' = "returned"
    /\ UNCHANGED <<fs, dir_exists, listing, now, call, frame, todo, analyses, stdout,
                   raised, sink>>

NextSwitching == CallDetectLanguageSwitching

SpecSwitching == InitSwitching /\ [][NextSwitching]_vars

\* How many of the words are in the content.
WordsIn(words, content) ==
    Cardinality({i \in 1..Len(words) : In(words[i], content)})

\* H where more Hindi than English indicator words are in the turn, E where
\* more English ones, M where as many of each (none of either included).
ClassOfTurn(content) ==
    LET hindi == WordsIn(hindi_indicators, content)
        english == WordsIn(english_indicators, content)
    IN  IF hindi = english THEN "M" ELSE IF hindi > english THEN "H" ELSE "E"

\* The places where a turn and the next one are H and E, or E and H.
SwitchPairs(turns) ==
    {i \in 1..(Len(turns) - 1) :
        <<ClassOfTurn(turns[i].content), ClassOfTurn(turns[i + 1].content)>>
            \in {<<"H", "E">>, <<"E", "H">>}}

-----------------------------------------------------------------------------
(* Critical analyses and analyses without a customer turn *)

\* The entries of the indicators that name a high or a medium risk keyword.
KeywordEntries(indicators) ==
    {i \in 1..Len(indicators) : IndicatorGroup(indicators[i]) \in {1, 2}}

\* C18: sentiment, cooperation and flow together contribute at most 64.5 to
\* a risk score, so an analysis of level Critical has a keyword risk of at
\* least 35, and its indicators, after the cut to seven, have at least one
\* 'High risk keyword' or 'Medium risk keyword' entry.
CriticalHasKeywordEntry ==
    pc = "returned" =>
        /\ RLe(RSub(result.risk_score, RMul(frame.keyword_risk_score, Rat(3, 10))),
               Rat(129, 2))
        /\ result.risk_level = "Critical" =>
              /\ RLe(RInt(35), frame.keyword_risk_score)
              /\ KeywordEntries(frame.indicators) # {}
              /\ KeywordEntries(result.key_indicators) # {}

\* A Critical analysis with more than seven indicators generated, and so
\* some of them cut.
CriticalWithIndicatorsCut ==
    /\ pc = "returned"
    /\ result.risk_level = "Critical"
    /\ Len(frame.indicators) > 7
    /\ Len(result.key_indicators) = 7
    /\ KeywordEntries(result.key_indicators) # {}

\* C19: a transcript without a customer turn has a risk score of exactly 30
\* and the level Medium, the call avoidance flag as its only indicator, and
\* as its recommendations the four base lines of Medium and no other line.
NoCustomerTurnIsMedium ==
    (/\ pc # "ready"
     /\ HoldsTranscript(call.transcript_file)
     /\ CustomerTurns(ItemsOf(call.transcript_file)) = {}) =>
            /\ pc = "returned"
            /\ RLe(result.risk_score, RInt(30)) /\ RLe(RInt(30), result.risk_score)
            /\ result.risk_level = "Medium"
            /\ result.key_indicators = <<AvoidanceFlag>>
            /\ result.recommendations =
                  <<"Follow up within 1 week",
                    "Send payment reminder via email/SMS",
                    "Monitor account closely for changes",
                    "Be prepared to offer flexible payment options">>

\* The analysis of a transcript that has items, none of them a message.
NoMessageAnalyzed ==
    /\ pc = "returned"
    /\ HoldsTranscript(call.transcript_file)
    /\ Len(frame.items) >= 1
    /\ \A i \in 1..Len(frame.items) : Get(frame.items[i], "type", None) # "message"
    /\ frame.user_messages = <<>>
    /\ result.risk_level = "Medium"
    /\ Len(result.recommendations) = 4

-----------------------------------------------------------------------------
(* agent.py: entrypoint of one outbound call                                 *)

\* Time is counted in tenths of a second.
MonitorWindow == 300    \* while perf_counter() - start_time < 30
SleepTime == 1          \* await asyncio.sleep(0.1)

MaxOverrun == 2    \* tenths of a second an await takes beyond its time

\* Values of the attribute sip.callStatus of the SIP participant (None: the
\* attribute is not set), and of its disconnect_reason.
CallStatuses == {None, "dialing", "automation", "active", "hangup"}

DisconnectReasons == {None, "USER_REJECTED", "USER_UNAVAILABLE", "CLIENT_INITIATED"}

\* logger.info(text)
Log(text) == Append(stdout, [text |-> text])

\* The job before entrypoint runs: ctx not connected, nobody dialed, no
\* participant in the room, no session, ctx.shutdown() not called.
InitAgent ==
    /\ fs = <<>>
    /\ dir_exists = TRUE
    /\ listing = <<>>
    /\ now = 0
    /\ call = [op |-> "entrypoint", user_identity |-> "phone_user"]
    /\ pc = "ready"
    /\ frame = [connected |-> FALSE, dialed |-> FALSE, in_room |-> FALSE,
                callStatus |-> None, disconnect_reason |-> None,
                participant |-> None, session_started |-> FALSE,
                start_time |-> 0, call_status |-> None, shutdown_calls |-> 0]
    /\ todo = <<>>
    /\ analyses = <<>>
    /\ stdout = <<>>
    /\ raised = NoException
    /\ result = NoResult
    /\ sink = <<>>

\* An await of entrypoint that fails: the exception leaves entrypoint.
AwaitRaises(what) ==
    /\ raised' = [type |-> "Exception", from |-> what]
    /\ pc' = "raised"
    /\ UNCHANGED <<frame, stdout, now>>

\* Lines 95-102: the two log lines and await ctx.connect(...).
Connect ==
    /\ pc = "ready"
    /\ call.op = "entrypoint"
    /\ \/ /\ frame' = [frame EXCEPT !.connected = TRUE]
          /\ stdout' = Append(Log("connecting to room"), [text |-> "dialing"])
          /\ pc' = "connected"
          /\ UNCHANGED <<raised, now>>
       \/ AwaitRaises("connect")
    /\ UNCHANGED <<fs, dir_exists, listing, call, todo, analyses, result, sink>>

\* Lines 109-116: await ctx.api.sip.create_sip_participant(...), which starts
\* dialing the user.
CreateSipParticipant ==
    /\ pc = "connected"
    /\ \/ /\ frame' = [frame EXCEPT !.dialed = TRUE]
          /\ pc' = "dialing"
          /\ UNCHANGED <<raised, stdout, now>>
       \/ AwaitRaises("create_sip_participant")
    /\ UNCHANGED <<fs, dir_exists, listing, call, todo, analyses, result, sink>>

\* The SIP participant comes into the room once the user is dialed.
ParticipantJoins ==
    /\ pc \notin {"returned", "raised"}
    /\ frame.dialed
    /\ ~frame.in_room
    /\ frame' = [frame EXCEPT !.in_room = TRUE, !.callStatus = "dialing"]
    /\ UNCHANGED <<fs, dir_exists, listing, now, call, pc, todo, analyses, stdout,
                   raised, result, sink>>

\* The call goes on: the SIP service sets sip.callStatus and the disconnect
\* reason of the participant, at any time while entrypoint runs.
ParticipantChanges ==
    /\ pc \notin {"returned", "raised"}
    /\ frame.in_room
    /\ \E status \in CallStatuses, reason \in DisconnectReasons :
          /\ <<status, reason>> # <<frame.callStatus, frame.disconnect_reason>>
          /\ frame' = [frame EXCEPT !.callStatus = status, !.disconnect_reason = reason]
    /\ UNCHANGED <<fs, dir_exists, listing, now, call, pc, todo, analyses, stdout,
                   raised, result, sink>>

\* Line 119: participant = await ctx.wait_for_participant(identity=user_identity),
\* which returns when the participant is in the room.
WaitForParticipant ==
    /\ pc = "dialing"
    /\ frame.in_room
    /\ \E d \in 0..MaxOverrun :
          /\ now' = now + d
          /\ frame' = [frame EXCEPT !.participant = call.user_identity]
    /\ pc' = "joined"
    /\ UNCHANGED <<fs, dir_exists, listing, call, todo, analyses, stdout, raised,
                   result, sink>>

\* Lines 121-124: await run_voice_pipeline_agent(...), which ends with
\* await session.start(agent, room=ctx.room); then start_time = perf_counter().
RunVoicePipelineAgent ==
    /\ pc = "joined"
    /\ \/ /\ frame' = [frame EXCEPT !.session_started = TRUE, !.start_time = now]
          /\ stdout' = Append(Log("starting voice pipeline agent"), [text |-> "tools"])
          /\ pc' = "monitoring"
          /\ UNCHANGED <<raised, now>>
       \/ /\ stdout' = Log("starting voice pipeline agent")
          /\ raised' = [type |-> "Exception", from |-> "session.start"]
          /\ pc' = "raised"
          /\ UNCHANGED <<frame, now>>
    /\ UNCHANGED <<fs, dir_exists, listing, call, todo, analyses, result, sink>>

\* Lines 143-144 after the loop: the log line and ctx.shutdown().
ExitJob(call_status, lines) ==
    /\ stdout' = stdout \o lines \o <<[text |-> "session timed out, exiting job"]>>
    /\ frame' = [frame EXCEPT !.call_status = call_status,
                              !.shutdown_calls = frame.shutdown_calls + 1]
    /\ pc' = "returned"
    /\ UNCHANGED now

\* Line 141: await asyncio.sleep(0.1), which takes 0.1 s or somewhat more.
Sleep(call_status) ==
    /\ \E d \in SleepTime..(SleepTime + MaxOverrun) : now' = now + d
    /\ frame' = [frame EXCEPT !.call_status = call_status]
    /\ UNCHANGED <<pc, stdout>>

\* The monitoring loop with a return where the code breaks when the user has
\* rejected the call.
MonitorReturnsOnRejected ==
    /\ pc = "monitoring"
    /\ IF now - frame.start_time < MonitorWindow
       THEN LET call_status == frame.callStatus
            IN  IF call_status = "active"
                THEN /\ stdout' = Log("user has picked up")
                     /\ frame' = [frame EXCEPT !.call_status = call_status]
                     /\ pc' = "returned"
                     /\ UNCHANGED now
                ELSE IF call_status = "automation" THEN Sleep(call_status)
                ELSE IF frame.disconnect_reason = "USER_REJECTED"
                THEN /\ stdout' = Log("user rejected the call, exiting job")
                     /\ frame' = [frame EXCEPT !.call_status = call_status]
                     /\ pc' = "returned"
                     /\ UNCHANGED now
                ELSE IF frame.disconnect_reason = "USER_UNAVAILABLE"
                THEN ExitJob(call_status, <<[text |-> "user did not pick up, exiting job"]>>)
                ELSE Sleep(call_status)
       ELSE ExitJob(frame.call_status, <<>>)
    /\ UNCHANGED <<fs, dir_exists, listing, call, todo, analyses, raised, result, sink>>

\* Lines 125-144: one test of the while condition and, inside the window,
\* one pass through the body up to the end of its sleep; a break, and the
\* window running out, go on to lines 143-144 with no await between.
MonitorIteration ==
    /\ pc = "monitoring"
    /\ IF now - frame.start_time < MonitorWindow
       THEN LET call_status == frame.callStatus
            IN  IF call_status = "active"
                THEN /\ stdout' = Log("user has picked up")
                     /\ frame' = [frame EXCEPT !.call_status = call_status]
                     /\ pc' = "returned"
                     /\ UNCHANGED now
                ELSE IF call_status = "automation" THEN Sleep(call_status)
                ELSE IF frame.disconnect_reason = "USER_REJECTED"
                THEN ExitJob(call_status, <<[text |-> "user rejected the call, exiting job"]>>)
                ELSE IF frame.disconnect_reason = "USER_UNAVAILABLE"
                THEN ExitJob(call_status, <<[text |-> "user did not pick up, exiting job"]>>)
                ELSE Sleep(call_status)
       ELSE ExitJob(frame.call_status, <<>>)
    /\ UNCHANGED <<fs, dir_exists, listing, call, todo, analyses, raised, result, sink>>

NextAgent ==
    \/ Connect
    \/ CreateSipParticipant
    \/ ParticipantJoins
    \/ ParticipantChanges
    \/ WaitForParticipant
    \/ RunVoicePipelineAgent
    \/ MonitorIteration

\* The event loop runs entrypoint again when its sleep is over.
SpecAgent == InitAgent /\ [][NextAgent]_vars /\ WF_vars(MonitorIteration)

\* The log has the line.
Logged(text) == \E i \in 1..Len(stdout) : stdout[i].text = text

\* What holds of the monitoring at every moment of a job.
MonitoringEndsOneOfTwoWays ==
    /\ pc \in {"monitoring", "returned"} =>
          frame.dialed /\ frame.participant = "phone_user" /\ frame.session_started
    /\ pc = "monitoring" => frame.shutdown_calls = 0
    /\ pc = "raised" => frame.shutdown_calls = 0
    /\ pc = "returned" =>
          IF Logged("user has picked up")
          THEN /\ frame.call_status = "active"
               /\ now - frame.start_time < 300
               /\ frame.shutdown_calls = 0
          ELSE /\ frame.call_status # "active"
               /\ frame.shutdown_calls = 1
               /\ \/ Logged("user rejected the call, exiting job")
                     /\ frame.disconnect_reason = "USER_REJECTED"
                  \/ Logged("user did not pick up, exiting job")
                     /\ frame.disconnect_reason = "USER_UNAVAILABLE"
                  \/ now - frame.start_time >= 300

\* C20: the monitoring of the call status starts only when dialing, the
\* participant's joining and the start of the voice pipeline are done, and
\* every monitoring loop ends, in one of two ways: sip.callStatus was read as
\* "active" inside the window of 30 seconds and entrypoint returns with
\* ctx.shutdown() not called; or else (USER_REJECTED or USER_UNAVAILABLE read,
\* or the window over, also with the status "automation" all the time)
\* ctx.shutdown() is called, once.
MonitoringStartsLateEndsOnce ==
    /\ []MonitoringEndsOneOfTwoWays
    /\ (pc = "monitoring") ~> (pc = "returned")

\* The window has run out with the status last read as "automation" and the
\* user's rejection of the call never looked at, and ctx.shutdown() is called.
AutomationUntilWindowOver ==
    /\ pc = "returned"
    /\ frame.call_status = "automation"
    /\ frame.disconnect_reason = "USER_REJECTED"
    /\ now - frame.start_time >= 300
    /\ frame.shutdown_calls = 1
    /\ ~Logged("user rejected the call, exiting job")
====
